---- MODULE Spec2Model ----
(***************************************************************************)
(* Model of the concurrent core of mailcatcher: the SMTP session state     *)
(* machine (src/src/smtp/mod.rs), the ingestion bridge (src/src/main.rs    *)
(* and src/src/http/mod.rs), the mail broker (src/src/mail/broker.rs) and  *)
(* the HTTP query / removal handlers (src/src/http/routes).                *)
(*                                                                         *)
(* A string is the sequence of its UTF-8 bytes, an ASCII byte written as   *)
(* its character, the two bytes of a two-byte character as "C3" and "A9";  *)
(* CRLF inside the data accumulator is the single element "\r\n".          *)
(* Option<T> is a record with the fields some and v.                       *)
(***************************************************************************)
EXTENDS Integers, Sequences, FiniteSets, TLC

VARIABLES
    use_starttls,   \* accept_loop parameter, shared by every session
    smtp,           \* smtp[c]: the Smtp struct of connection c
    conn,           \* conn[c]: position of connection_loop, last reply written, mail being sent
    nextId,         \* source of fresh Ulids
    mailChan,       \* the bounded(1) channel from the sessions to the bridge
    mailChanOpen,   \* FALSE once the receiver of mailChan has been dropped
    notifier,       \* "Task: Mail notifier" of main_fut (first half of the bridge)
    brokerChan,     \* the unbounded command channel of the broker
    brokerAlive,    \* FALSE once the broker task has returned
    mails,          \* the mail tank owned by the broker
    newMailChan,    \* the bounded(1) channel rx_mails between the two halves of the bridge
    sseLog,         \* every event published on the SSE bus, in publication order
    http,           \* http[h]: a running HTTP handler
    nreq,           \* number of HTTP requests started
    hist            \* history variables, see NoHistory

vars == <<use_starttls, smtp, conn, nextId, mailChan, mailChanOpen, notifier,
          brokerChan, brokerAlive, mails, newMailChan, sseLog,
          http, nreq, hist>>

bridgeVars == <<notifier, newMailChan>>
brokerVars == <<brokerChan, brokerAlive, mails>>
httpVars == <<http, nreq>>

(***************************************************************************)
(* Bounds                                                                  *)
(***************************************************************************)
MaxMails == 1       \* mails emitted while the whole system runs
IngestMails == 2    \* mails emitted while sessions, bridge and broker run
SmtpMails == 1      \* mails emitted while a session runs alone
MaxRcpt == 1        \* RCPT TO accepted in one transaction
MaxDataLen == 1     \* lines read in one DATA phase, the final dot apart
MaxReq == 2         \* HTTP requests started
MaxPayload == 3     \* lines of a payload when the payloads are explored
BrokerMails == 2    \* mails handed to the broker when it runs without the SMTP side
MaxMailLines == 4   \* lines of a payload when the parts of a mail are explored

Conns == {"c1", "c2"}
Handlers == {"h1", "h2"}
\* handlers are interchangeable: a request is served by the first free one
HandlerRank(h) == IF h = "h1" THEN 1 ELSE 2

(***************************************************************************)
(* Strings and options                                                     *)
(***************************************************************************)
None == [some |-> FALSE, v |-> <<>>]
Some(x) == [some |-> TRUE, v |-> x]

UpperAlpha == <<"A","B","C","D","E","F","G","H","I","J","K","L","M",
                "N","O","P","Q","R","S","T","U","V","W","X","Y","Z">>
LowerAlpha == <<"a","b","c","d","e","f","g","h","i","j","k","l","m",
                "n","o","p","q","r","s","t","u","v","w","x","y","z">>

LowerChar(ch) ==
    IF \E i \in 1..26 : UpperAlpha[i] = ch
    THEN LowerAlpha[CHOOSE i \in 1..26 : UpperAlpha[i] = ch]
    ELSE ch

\* variant: the line is compared as it was sent
to_lowercase_asSent(s) == s

\* str::to_lowercase
to_lowercase(s) == [i \in 1..Len(s) |-> LowerChar(s[i])]

\* &s[..n]
Take(s, n) == SubSeq(s, 1, n)
\* &s[n..]
Drop(s, n) == SubSeq(s, n + 1, Len(s))

\* the bytes that continue a character
ContBytes == {"A9"}

\* str::is_char_boundary
is_char_boundary(s, n) ==
    n = 0 \/ n = Len(s) \/ (n < Len(s) /\ s[n + 1] \notin ContBytes)

IsWhite(ch) == ch \in {" ", "\t"}

RECURSIVE trim_start(_)
trim_start(s) ==
    IF s # <<>> /\ IsWhite(Head(s)) THEN trim_start(Tail(s)) ELSE s

(***************************************************************************)
(* SMTP replies (src/src/smtp/mod.rs:24-32); the banner name is fixed      *)
(***************************************************************************)
MSG_250_OK == "250 OK"
MSG_354_NEXT_DATA == "354 Start mail input; end with <CRLF>.<CRLF>"
MSG_500_LENGTH_TOO_LONG == "500 Line too long."
MSG_502_NOT_IMPLEMENTED == "502 Command not implemented"
MSG_503_BAD_SEQUENCE == "503 Bad sequence of commands"
MSG_220_GREETING == "220 MailCatcher ESMTP"
MSG_250_HELLO == "250 MailCatcher"
MSG_250_HELLO_STARTTLS == "250-MailCatcher 250 STARTTLS"
MSG_221_CLOSING == "221 MailCatcher Service closing transmission channel"
NoReply == ""

MaxAddrLen == 64
MaxLineLen == 1000
MailChanCap == 1

(***************************************************************************)
(* Commands (src/src/smtp/command.rs)                                      *)
(***************************************************************************)
Cmd(t, a) == [t |-> t, arg |-> a]

\* variant: a verb with nothing behind it is taken as the command
has_argument_orNone(line, n) == Len(line) >= n

\* the guards `line.len() > n` of the commands that take an argument
has_argument(line, n) == Len(line) > n

\* Smtp::process_line; the command "Panic" stands for the panic of a slice
\* &line[..n] whose end is not a char boundary
process_line(s, starttls, command_line) ==
    LET line == to_lowercase(command_line) IN
    IF ~s.receive_data THEN
        CASE line = <<"d","a","t","a">> -> Cmd("DataStart", <<>>)
          [] line = <<"r","s","e","t">> -> Cmd("Reset", <<>>)
          [] line = <<"q","u","i","t">> -> Cmd("Quit", <<>>)
          [] line = <<"s","t","a","r","t","t","l","s">> /\ starttls -> Cmd("StartTls", <<>>)
          [] OTHER ->
            IF Len(line) > 5 /\ ~is_char_boundary(line, 5)
            THEN Cmd("Panic", <<>>)
            ELSE IF has_argument(line, 5) /\ Take(line, 5) = <<"h","e","l","o"," ">>
            THEN Cmd("Hello", Drop(command_line, 5))
            ELSE IF has_argument(line, 5) /\ Take(line, 5) = <<"e","h","l","o"," ">>
            THEN Cmd("Ehllo", Drop(command_line, 5))
            ELSE IF Len(line) > 10 /\ ~is_char_boundary(line, 10)
            THEN Cmd("Panic", <<>>)
            ELSE IF has_argument(line, 10)
                    /\ Take(line, 10) = <<"m","a","i","l"," ","f","r","o","m",":">>
            THEN Cmd("From", trim_start(Drop(command_line, 10)))
            ELSE IF Len(line) > 8 /\ ~is_char_boundary(line, 8)
            THEN Cmd("Panic", <<>>)
            ELSE IF has_argument(line, 8) /\ Take(line, 8) = <<"r","c","p","t"," ","t","o",":">>
            THEN Cmd("Recipient", trim_start(Drop(command_line, 8)))
            ELSE IF (Len(line) = 4 /\ line = <<"n","o","o","p">>)
                    \/ (Len(line) > 4 /\ Take(line, 5) = <<"n","o","o","p"," ">>)
            THEN Cmd("Noop", <<>>)
            ELSE Cmd("Error", command_line)
    ELSE IF command_line = <<".">> THEN Cmd("DataEnd", <<>>)
    ELSE Cmd("Data", command_line)

\* Smtp::new
NewSmtp ==
    [remote_name |-> None, addr_from |-> None, addr_to |-> <<>>,
     receive_data |-> FALSE, data |-> <<>>]

\* variant: the name given with HELO survives
reset_keepsName(s) ==
    [s EXCEPT !.data = <<>>, !.receive_data = FALSE, !.addr_to = <<>>,
              !.addr_from = None]

\* Smtp::reset
reset(s) ==
    [s EXCEPT !.data = <<>>, !.receive_data = FALSE, !.addr_to = <<>>,
              !.remote_name = None, !.addr_from = None]

RECURSIVE trim_dots(_)
\* the line without its leading dots
trim_dots(line) ==
    IF line # <<>> /\ Head(line) = "." THEN trim_dots(Tail(line)) ELSE line

\* variant: every leading dot is removed
push_data_allDots(s, line) ==
    LET sep == IF s.data # <<>> THEN <<"\r\n">> ELSE <<>>
    IN [s EXCEPT !.data = s.data \o sep \o trim_dots(line)]

\* Smtp::push_data
push_data(s, line) ==
    LET start_idx == IF line # <<>> /\ Take(line, 1) = <<".">> THEN 1 ELSE 0
        sep == IF s.data # <<>> THEN <<"\r\n">> ELSE <<>>
    IN [s EXCEPT !.data = s.data \o sep \o Drop(line, start_idx)]

\* Smtp::push_data panics: `&line[0..1]` is taken of a line whose first
\* character is longer than one byte
push_data_panics(line) == line # <<>> /\ ~is_char_boundary(line, 1)

\* variant: DATA does not ask for a recipient
is_valid_dataEarly(s, starttls, action) ==
    CASE action.t \in {"Hello", "Ehllo"} -> ~s.addr_from.some /\ s.addr_to = <<>>
      [] action.t = "From" -> s.remote_name.some /\ s.addr_to = <<>>
      [] action.t = "Recipient" -> s.remote_name.some /\ s.addr_from.some
      [] action.t \in {"Data", "DataStart"} ->
            s.remote_name.some /\ s.addr_from.some
      [] action.t \in {"Noop", "Quit", "Reset", "DataEnd", "Error"} -> TRUE
      [] action.t = "StartTls" -> starttls

\* variant: DATA is accepted in every state
is_valid_dataAlways(s, starttls, action) ==
    CASE action.t \in {"Hello", "Ehllo"} -> ~s.addr_from.some /\ s.addr_to = <<>>
      [] action.t = "From" -> s.remote_name.some /\ s.addr_to = <<>>
      [] action.t = "Recipient" -> s.remote_name.some /\ s.addr_from.some
      [] action.t \in {"Data", "DataStart"} -> TRUE
      [] action.t \in {"Noop", "Quit", "Reset", "DataEnd", "Error"} -> TRUE
      [] action.t = "StartTls" -> starttls

\* Smtp::is_valid
is_valid(s, starttls, action) ==
    CASE action.t \in {"Hello", "Ehllo"} -> ~s.addr_from.some /\ s.addr_to = <<>>
      [] action.t = "From" -> s.remote_name.some /\ s.addr_to = <<>>
      [] action.t = "Recipient" -> s.remote_name.some /\ s.addr_from.some
      [] action.t \in {"Data", "DataStart"} ->
            s.remote_name.some /\ s.addr_from.some /\ s.addr_to # <<>>
      [] action.t \in {"Noop", "Quit", "Reset", "DataEnd", "Error"} -> TRUE
      [] action.t = "StartTls" -> starttls

(***************************************************************************)
(* Mail (src/src/mail/mod.rs)                                              *)
(***************************************************************************)
RECURSIVE SplitCRLF(_)
\* the pieces of s between its line ends
SplitCRLF(s) ==
    IF \A i \in 1..Len(s) : s[i] # "\r\n"
    THEN <<s>>
    ELSE LET k == CHOOSE i \in 1..Len(s) :
                    s[i] = "\r\n" /\ \A j \in 1..(i - 1) : s[j] # "\r\n"
         IN <<SubSeq(s, 1, k - 1)>> \o SplitCRLF(SubSeq(s, k + 1, Len(s)))

\* str::lines: a line end behind the last line is its terminator
str_lines(s) ==
    LET p == SplitCRLF(s)
    IN IF p[Len(p)] = <<>> THEN SubSeq(p, 1, Len(p) - 1) ELSE p

RECURSIVE trim_end(_)
\* str::trim_end
trim_end(s) ==
    IF s # <<>> /\ s[Len(s)] \in {" ", "\t", "\r\n"}
    THEN trim_end(SubSeq(s, 1, Len(s) - 1))
    ELSE s

RECURSIVE push_lines(_, _)
\* the loop `headers.push_str(line); headers.push_str("\r\n")` over the
\* first n lines
push_lines(lines, n) ==
    IF n = 0 THEN <<>>
    ELSE push_lines(lines, n - 1) \o lines[n] \o <<"\r\n">>

RECURSIVE join_body(_)
\* the two loops that build the body: the first line, then "\r\n" and the
\* line for every further one
join_body(lines) ==
    IF lines = <<>> THEN <<>>
    ELSE IF Len(lines) = 1 THEN lines[1]
    ELSE join_body(SubSeq(lines, 1, Len(lines) - 1)) \o <<"\r\n">> \o lines[Len(lines)]

\* Mail::split_header_body
split_header_body(content) ==
    LET lines == str_lines(content)
        empties == {i \in 1..Len(lines) : lines[i] = <<>>}
        stop == IF empties = {} THEN Len(lines) + 1
                ELSE CHOOSE i \in empties : \A j \in empties : i <= j
    IN [headers |-> trim_end(push_lines(lines, stop - 1)),
        body |-> join_body(SubSeq(lines, stop + 1, Len(lines)))]

RECURSIVE parse_headers(_, _)
\* Mail::new, the loop over headers.lines(): acc is mail.headers
parse_headers(lines, acc) ==
    IF lines = <<>> THEN acc
    ELSE LET header == Head(lines)
         IN IF Take(header, 1) = <<" ">> /\ acc # <<>>
            THEN parse_headers(Tail(lines),
                               [acc EXCEPT ![Len(acc)] = @ \o <<"\r\n">> \o header])
            ELSE parse_headers(Tail(lines), Append(acc, header))

\* Mail::new panics: `&header[..1]` is taken of a header whose first
\* character is longer than one byte
new_panics(data) ==
    LET lines == str_lines(split_header_body(data).headers)
    IN \E i \in 1..Len(lines) : ~is_char_boundary(lines[i], 1)

\* Mail::new: the raw content, the header entries and the text body
NewMail(id, from, to, data) ==
    [id |-> id, from |-> from, to |-> to, raw |-> data,
     headers |-> parse_headers(str_lines(split_header_body(data).headers), <<>>),
     text |-> split_header_body(data).body]

\* The result of process_command: the new Smtp, the reply written, the
\* Option<Mail> returned, and how the call ended ("ok", "err" for Err(..),
\* "panic" for unimplemented!()).
Outcome(s, reply, mail, end) == [smtp |-> s, reply |-> reply, mail |-> mail, end |-> end]

\* variant: the refusal also forgets the transaction
cmd_BadSequence_forgets(s) == Outcome(reset(s), MSG_503_BAD_SEQUENCE, None, "ok")

\* process_command, arm `action if !self.is_valid(action)`
cmd_BadSequence(s) == Outcome(s, MSG_503_BAD_SEQUENCE, None, "ok")

\* process_command, arm Command::Ehllo | Command::Hello
cmd_Hello(s, starttls, remote_name) ==
    Outcome([s EXCEPT !.remote_name = Some(remote_name)],
            IF starttls THEN MSG_250_HELLO_STARTTLS ELSE MSG_250_HELLO,
            None, "ok")

\* variant: the limit is tested with >=
cmd_From_offByOne(s, from) ==
    IF Len(from) >= MaxAddrLen
    THEN Outcome(s, MSG_500_LENGTH_TOO_LONG, None, "ok")
    ELSE Outcome([s EXCEPT !.addr_from = Some(from)], MSG_250_OK, None, "ok")

\* process_command, arm Command::From
cmd_From(s, from) ==
    IF Len(from) > MaxAddrLen
    THEN Outcome(s, MSG_500_LENGTH_TOO_LONG, None, "ok")
    ELSE Outcome([s EXCEPT !.addr_from = Some(from)], MSG_250_OK, None, "ok")

\* process_command, arm Command::Recipient
cmd_Recipient(s, to) ==
    Outcome([s EXCEPT !.addr_to = Append(s.addr_to, to)], MSG_250_OK, None, "ok")

\* process_command, arm Command::DataStart
cmd_DataStart(s) ==
    Outcome([s EXCEPT !.receive_data = TRUE], MSG_354_NEXT_DATA, None, "ok")

\* process_command, arm Command::Data
cmd_Data(s, line) ==
    LET reply == IF Len(line) > MaxLineLen THEN MSG_500_LENGTH_TOO_LONG ELSE NoReply
    IN IF push_data_panics(line)
       THEN Outcome(s, reply, None, "panic")
       ELSE Outcome(push_data(s, line), reply, None, "ok")

\* variant: DATA-end forgets the HELO name as well
cmd_DataEnd_forgetsName(s, id) ==
    IF ~s.addr_from.some
    THEN Outcome(s, NoReply, None, "err")
    ELSE Outcome(reset(s), MSG_250_OK,
                 Some(NewMail(id, s.addr_from.v, s.addr_to, s.data)), "ok")

\* process_command, arm Command::DataEnd
cmd_DataEnd(s, id) ==
    IF ~s.addr_from.some
    THEN Outcome(s, NoReply, None, "err")
    ELSE IF new_panics(s.data)
    THEN Outcome(s, NoReply, None, "panic")
    ELSE Outcome([s EXCEPT !.receive_data = FALSE, !.addr_from = None,
                           !.addr_to = <<>>, !.data = <<>>],
                 MSG_250_OK,
                 Some(NewMail(id, s.addr_from.v, s.addr_to, s.data)), "ok")

\* Smtp::process_command
process_command(s, starttls, command, id) ==
    IF command.t = "Panic"
    THEN Outcome(s, NoReply, None, "panic")
    ELSE IF ~is_valid(s, starttls, command)
    THEN cmd_BadSequence(s)
    ELSE CASE command.t = "Noop" -> Outcome(s, MSG_250_OK, None, "ok")
      [] command.t \in {"Ehllo", "Hello"} -> cmd_Hello(s, starttls, command.arg)
      [] command.t = "StartTls" -> Outcome(s, NoReply, None, "panic")
      [] command.t = "Reset" -> Outcome(reset(s), MSG_250_OK, None, "ok")
      [] command.t = "From" -> cmd_From(s, command.arg)
      [] command.t = "Recipient" -> cmd_Recipient(s, command.arg)
      [] command.t = "DataStart" -> cmd_DataStart(s)
      [] command.t = "Data" -> cmd_Data(s, command.arg)
      [] command.t = "DataEnd" -> cmd_DataEnd(s, id)
      [] command.t = "Quit" -> Outcome(s, MSG_221_CLOSING, None, "ok")
      [] command.t = "Error" -> Outcome(s, MSG_502_NOT_IMPLEMENTED, None, "ok")

(***************************************************************************)
(* Input lines                                                             *)
(***************************************************************************)
L_HELO == <<"H","E","L","O"," ","c">>
L_EHLO == <<"e","h","l","o"," ","c">>
L_MAIL == <<"M","A","I","L"," ","F","R","O","M",":","<","a",">">>
L_RCPT == <<"R","C","P","T"," ","T","O",":","<","b",">">>
L_RCPT_2 == <<"R","C","P","T"," ","T","O",":","<","c",">">>
L_DATA == <<"D","A","T","A">>
L_RSET == <<"r","S","E","T">>
L_NOOP == <<"N","O","O","P">>
L_QUIT == <<"Q","U","I","T">>
L_STARTTLS == <<"S","T","A","R","T","T","L","S">>
L_INVALID == <<"I","N","V","A","L","I","D">>
L_DOT == <<".">>
L_TEXT == <<"x">>
L_STUFFED == <<".","x">>
L_EMPTY == <<>>
\* header lines: a field, a continuation led by a space, one led by a tab,
\* and a field whose first character takes two bytes
L_HEADER == <<"S",":","a">>
L_CONT_SPACE == <<" ","b">>
L_CONT_TAB == <<"\t","b">>
L_HEADER_UTF8 == <<"C3","A9",":","a">>
\* "aaaa" followed by a two-byte character
L_UTF8 == <<"a","a","a","a","C3","A9">>
\* verbs without their argument, and a verb with letters behind it
L_HELO_BARE == <<"H","E","L","O">>
L_MAIL_BARE == <<"M","A","I","L"," ","F","R","O","M",":">>
L_EHLO_BARE == <<"E","H","L","O">>
L_RCPT_BARE == <<"R","C","P","T"," ","T","O",":">>
L_HELO_SPACE == <<"H","E","L","O"," ">>
L_NOOP_MORE == <<"N","O","O","P","x">>

\* n times the character ch
Repeat(ch, n) == [i \in 1..n |-> ch]

\* the verbs in a mix of upper and lower case, arguments in mixed case
L_HELO_MIXED == <<"h","E","l","O"," ","A","b">>
L_EHLO_MIXED == <<"E","h","L","o"," ","A","b">>
L_MAIL_MIXED == <<"M","a","i","l"," ","F","r","o","m",":","<","A","b",">">>
L_RCPT_MIXED == <<"r","C","p","T"," ","t","O",":","<","C","d",">">>
L_DATA_MIXED == <<"d","A","t","A">>
L_NOOP_MIXED == <<"N","o","O","p">>
L_QUIT_MIXED == <<"q","U","i","T">>

\* lines that are none of the supported commands
OtherLines == {L_INVALID, L_UTF8, L_HELO_BARE, L_MAIL_BARE, L_NOOP_MORE}

\* the verbs in mixed case
MixedLines == {L_HELO_MIXED, L_EHLO_MIXED, L_MAIL_MIXED, L_RCPT_MIXED,
               L_DATA_MIXED, L_RSET, L_NOOP_MIXED, L_QUIT_MIXED}

\* the commands of a client that tries every verb, in upper and in mixed
\* case, and lines that are no command
CmdLines == {L_HELO, L_MAIL, L_RCPT, L_DATA, L_NOOP, L_QUIT, L_STARTTLS}
                \cup MixedLines \cup OtherLines

\* addresses and lines at the length limits and one octet beyond
L_MAIL_FULL == <<"M","A","I","L"," ","F","R","O","M",":">> \o Repeat("a", MaxAddrLen)
L_MAIL_LONG == <<"M","A","I","L"," ","F","R","O","M",":">> \o Repeat("a", MaxAddrLen + 1)
L_RCPT_FULL == <<"R","C","P","T"," ","T","O",":">> \o Repeat("b", MaxAddrLen)
L_RCPT_LONG == <<"R","C","P","T"," ","T","O",":">> \o Repeat("b", MaxAddrLen + 1)
L_DOTDOT == <<".",".","x">>
L_LINE_FULL == Repeat("a", MaxLineLen)
L_LINE_LONG == Repeat("a", MaxLineLen + 1)

\* the commands of a client that tries the address lengths
AddrLines == {L_HELO, L_MAIL, L_MAIL_FULL, L_MAIL_LONG,
              L_RCPT, L_RCPT_FULL, L_RCPT_LONG, L_DATA, L_RSET, L_NOOP,
              L_QUIT, L_INVALID}

\* the lines of the payloads that are explored
PayloadLines == {L_TEXT, L_EMPTY, L_STUFFED, L_DOTDOT, L_LINE_FULL, L_LINE_LONG}

\* every line a client sends in the session specification
Lines == {L_HELO, L_EHLO, L_MAIL, L_RCPT, L_DATA, L_RSET, L_NOOP, L_QUIT,
          L_STARTTLS, L_INVALID, L_DOT, L_TEXT, L_STUFFED, L_EMPTY}

\* the lines a client sends in DATA mode when every command is explored:
\* text, a line that reads like a command, and the final dot
DataLines == {L_TEXT, L_RSET, L_DOT}

\* the lines clients send when the whole system runs
SysLines == {L_HELO, L_MAIL, L_RCPT, L_DATA, L_TEXT, L_DOT}

(***************************************************************************)
(* connection_loop                                                         *)
(***************************************************************************)
\* History of the transaction verbs accepted on a connection: the verb that
\* was accepted last ("start" before any HELO and after RSET, "ended" after
\* DATA-end).
NextPhase(phase, command, out) ==
    IF out.end # "ok" \/ out.reply \in {MSG_503_BAD_SEQUENCE, MSG_500_LENGTH_TOO_LONG}
    THEN phase
    ELSE CASE command.t \in {"Hello", "Ehllo"} -> "helo"
           [] command.t = "From" -> "mail"
           [] command.t = "Recipient" -> "rcpt"
           [] command.t = "DataStart" -> "data"
           [] command.t = "DataEnd" -> "ended"
           [] command.t = "Reset" -> "start"
           [] OTHER -> phase

\* lines: the lines read in DATA mode since the last DATA command
NewConn ==
    [pc |-> "new", reply |-> NoReply, mail |-> None, phase |-> "start", lines |-> <<>>]

\* the lines of the DATA phase after this command
NextLines(lines, command, out) ==
    CASE command.t = "Data" -> Append(lines, command.arg)
      [] command.t = "DataStart" /\ out.smtp.receive_data -> <<>>
      [] OTHER -> lines

\* variant: a new connection resets the state of every session
Accept_resetsAll(c) ==
    /\ conn[c].pc = "new"
    /\ smtp' = [d \in Conns |-> NewSmtp]
    /\ conn' = [conn EXCEPT ![c].pc = "read", ![c].reply = MSG_220_GREETING]
    /\ UNCHANGED <<use_starttls, nextId, mailChan, mailChanOpen, hist>>
    /\ UNCHANGED <<bridgeVars, brokerVars, sseLog, httpVars>>

\* accept_loop spawns connection_loop, which builds the Smtp and greets
Accept(c) ==
    /\ conn[c].pc = "new"
    /\ smtp' = [smtp EXCEPT ![c] = NewSmtp]
    /\ conn' = [conn EXCEPT ![c].pc = "read", ![c].reply = MSG_220_GREETING]
    /\ UNCHANGED <<use_starttls, nextId, mailChan, mailChanOpen, hist>>
    /\ UNCHANGED <<bridgeVars, brokerVars, sseLog, httpVars>>

\* the lines a client may still send under the bounds
WithinBounds(c, line, maxMails, maxLines) ==
    IF smtp[c].receive_data
    THEN IF line = L_DOT THEN nextId <= maxMails ELSE Len(conn[c].lines) < maxLines
    ELSE process_line(smtp[c], use_starttls, line).t = "Recipient"
            => Len(smtp[c].addr_to) < MaxRcpt

\* variant: the loop does not break on Quit
NextPc_noBreak(action, out) ==
    CASE out.end = "panic" -> "panicked"
      [] out.end = "err" -> "failed"
      [] out.mail.some -> "send"
      [] OTHER -> "read"

\* where connection_loop goes after process_command: out of the task on a
\* panic or an Err, to the send of the mail, out of the loop on Quit, or to
\* the next line
NextPc(action, out) ==
    CASE out.end = "panic" -> "panicked"
      [] out.end = "err" -> "failed"
      [] out.mail.some -> "send"
      [] action.t = "Quit" -> "closed"
      [] OTHER -> "read"

\* one iteration of the command loop, up to the send on mails_broker
ReadLine(c, line) ==
    /\ conn[c].pc = "read"
    /\ LET action == process_line(smtp[c], use_starttls, line)
           out == process_command(smtp[c], use_starttls, action, nextId)
       IN /\ smtp' = [smtp EXCEPT ![c] = out.smtp]
          /\ conn' = [conn EXCEPT
                ![c].reply = out.reply,
                ![c].mail = out.mail,
                ![c].phase = NextPhase(conn[c].phase, action, out),
                ![c].lines = NextLines(conn[c].lines, action, out),
                ![c].pc = NextPc(action, out)]
          /\ nextId' = IF out.mail.some THEN nextId + 1 ELSE nextId
          /\ hist' = IF out.mail.some
                     THEN [hist EXCEPT !.sent = @ \cup {out.mail.v}]
                     ELSE hist
    /\ UNCHANGED <<use_starttls, mailChan, mailChanOpen>>
    /\ UNCHANGED <<bridgeVars, brokerVars, sseLog, httpVars>>

\* variant: the failed send is ignored and the loop goes on
SendMail_ignoresClosed(c) ==
    /\ conn[c].pc = "send"
    /\ IF ~mailChanOpen
       THEN /\ conn' = [conn EXCEPT ![c].pc = "read", ![c].mail = None]
            /\ UNCHANGED mailChan
       ELSE /\ Len(mailChan) < MailChanCap
            /\ mailChan' = Append(mailChan, conn[c].mail.v)
            /\ conn' = [conn EXCEPT ![c].pc = "read", ![c].mail = None,
                                    ![c].lines = <<>>]
    /\ UNCHANGED <<use_starttls, smtp, nextId, mailChanOpen, hist>>
    /\ UNCHANGED <<bridgeVars, brokerVars, sseLog, httpVars>>

\* variant: try_send, which gives the mail up when the channel is full
SendMail_trySend(c) ==
    /\ conn[c].pc = "send"
    /\ IF ~mailChanOpen
       THEN /\ conn' = [conn EXCEPT ![c].pc = "failed", ![c].mail = None]
            /\ UNCHANGED mailChan
       ELSE /\ mailChan' = IF Len(mailChan) < MailChanCap
                           THEN Append(mailChan, conn[c].mail.v)
                           ELSE mailChan
            /\ conn' = [conn EXCEPT ![c].pc = "read", ![c].mail = None,
                                    ![c].lines = <<>>]
    /\ UNCHANGED <<use_starttls, smtp, nextId, mailChanOpen, hist>>
    /\ UNCHANGED <<bridgeVars, brokerVars, sseLog, httpVars>>

\* mails_broker.send(mail).await?
SendMail(c) ==
    /\ conn[c].pc = "send"
    /\ IF ~mailChanOpen
       THEN /\ conn' = [conn EXCEPT ![c].pc = "failed", ![c].mail = None]
            /\ UNCHANGED mailChan
       ELSE /\ Len(mailChan) < MailChanCap
            /\ mailChan' = Append(mailChan, conn[c].mail.v)
            /\ conn' = [conn EXCEPT ![c].pc = "read", ![c].mail = None,
                                    ![c].lines = <<>>]
    /\ UNCHANGED <<use_starttls, smtp, nextId, mailChanOpen, hist>>
    /\ UNCHANGED <<bridgeVars, brokerVars, sseLog, httpVars>>

\* the peer closes the connection: lines.next() yields None
Disconnect(c) ==
    /\ conn[c].pc = "read"
    /\ conn' = [conn EXCEPT ![c].pc = "closed"]
    /\ UNCHANGED <<use_starttls, smtp, nextId, mailChan, mailChanOpen, hist>>
    /\ UNCHANGED <<bridgeVars, brokerVars, sseLog, httpVars>>

\* variant: the error of one session task ends every session task
TransportError_fatal(c) ==
    /\ conn[c].pc = "read"
    /\ conn' = [d \in Conns |->
                    IF conn[d].pc \in {"read", "send"}
                    THEN [conn[d] EXCEPT !.pc = "failed"] ELSE conn[d]]
    /\ UNCHANGED <<use_starttls, smtp, nextId, mailChan, mailChanOpen, hist>>
    /\ UNCHANGED <<bridgeVars, brokerVars, sseLog, httpVars>>

\* lines.next() yields Err, or a write to the peer fails: `line?` or
\* `self.write(..).await?` returns from connection_loop, and log_errors
\* swallows the Err of that task
TransportError(c) ==
    /\ conn[c].pc = "read"
    /\ conn' = [conn EXCEPT ![c].pc = "failed"]
    /\ UNCHANGED <<use_starttls, smtp, nextId, mailChan, mailChanOpen, hist>>
    /\ UNCHANGED <<bridgeVars, brokerVars, sseLog, httpVars>>

(***************************************************************************)
(* History variables                                                       *)
(***************************************************************************)
\* sent:       the mails whose DATA-end was answered 250 OK
\* stored:     ids whose MailEvt::NewMail has been enqueued on brokerChan
\* live:       ids enqueued for storage with no removal enqueued since
\* rmAfterPub: ids a removal has been requested for after their NewMail
\*             event was published
\* removed:    ids the broker has removed from the tank
\* gone:       ids for which GET /remove/{id} has answered OK: 1
\* logged:     ids of the mails a bridge task has written an error line for
NoHistory ==
    [sent |-> {}, stored |-> {}, live |-> {},
     rmAfterPub |-> {}, removed |-> {}, gone |-> {}, logged |-> {}]

\* ids of the NewMail events published so far
PublishedNew == {sseLog[i].id : i \in {j \in 1..Len(sseLog) : sseLog[j].t = "NewMail"}}

\* ids of the mails acknowledged so far
Acked == {m.id : m \in hist.sent}

\* What is known when a request is issued: the acknowledged ids not asked to
\* be removed since, the live ids, the ids published as NewMail, those of
\* them not asked to be removed since their publication, and the gone ids.
Snapshot ==
    [acked |-> Acked \ (hist.stored \ hist.live), live |-> hist.live,
     pub |-> PublishedNew, quiet |-> PublishedNew \ hist.rmAfterPub,
     gone |-> hist.gone]

(***************************************************************************)
(* Ingestion bridge, first half: main_fut, "Task: Mail notifier"           *)
(***************************************************************************)
MailEvt(t, req, id, mail) == [t |-> t, req |-> req, id |-> id, mail |-> mail]

\* variant: the mail goes on to the SSE side and never to the broker
NotifierStore_forwardOnly ==
    /\ notifier.pc = "recv"
    /\ mailChan # <<>>
    /\ mailChan' = Tail(mailChan)
    /\ notifier' = [pc |-> "forward", mail |-> Some(Head(mailChan))]
    /\ UNCHANGED <<use_starttls, smtp, conn, nextId, mailChanOpen, hist>>
    /\ UNCHANGED <<newMailChan, brokerVars, sseLog, httpVars>>

\* variant: a failed send to the broker ends the task
NotifierStore_fatal ==
    /\ notifier.pc = "recv"
    /\ mailChan # <<>>
    /\ mailChan' = Tail(mailChan)
    /\ LET mail == Head(mailChan)
       IN IF brokerAlive
          THEN /\ brokerChan' = Append(brokerChan, MailEvt("NewMail", 0, mail.id, Some(mail)))
               /\ notifier' = [pc |-> "forward", mail |-> Some(mail)]
               /\ hist' = [hist EXCEPT !.stored = @ \cup {mail.id}, !.live = @ \cup {mail.id}]
          ELSE /\ notifier' = [pc |-> "ended", mail |-> None]
               /\ hist' = [hist EXCEPT !.logged = @ \cup {mail.id}]
               /\ UNCHANGED brokerChan
    /\ UNCHANGED <<use_starttls, smtp, conn, nextId, mailChanOpen>>
    /\ UNCHANGED <<newMailChan, brokerAlive, mails, sseLog, httpVars>>

\* rx_mail_from_smtp.next().await, then
\* tx_http_new_mail.send(MailEvt::NewMail(mail.clone())).await on the
\* unbounded broker channel: Ok leads to the send on tx_new_mail, Err is logged
NotifierStore ==
    /\ notifier.pc = "recv"
    /\ mailChan # <<>>
    /\ mailChan' = Tail(mailChan)
    /\ LET mail == Head(mailChan)
       IN IF brokerAlive
          THEN /\ brokerChan' = Append(brokerChan, MailEvt("NewMail", 0, mail.id, Some(mail)))
               /\ notifier' = [pc |-> "forward", mail |-> Some(mail)]
               /\ hist' = [hist EXCEPT !.stored = @ \cup {mail.id}, !.live = @ \cup {mail.id}]
          ELSE /\ notifier' = [pc |-> "recv", mail |-> None]
               /\ hist' = [hist EXCEPT !.logged = @ \cup {mail.id}]
               /\ UNCHANGED brokerChan
    /\ UNCHANGED <<use_starttls, smtp, conn, nextId, mailChanOpen>>
    /\ UNCHANGED <<newMailChan, brokerAlive, mails, sseLog, httpVars>>

\* variant: try_send, which gives the mail up when the channel is full
NotifierForward_trySend ==
    /\ notifier.pc = "forward"
    /\ newMailChan' = IF Len(newMailChan) < MailChanCap
                      THEN Append(newMailChan, notifier.mail.v)
                      ELSE newMailChan
    /\ notifier' = [pc |-> "recv", mail |-> None]
    /\ UNCHANGED <<use_starttls, smtp, conn, nextId, mailChan, mailChanOpen, hist>>
    /\ UNCHANGED <<brokerVars, sseLog, httpVars>>

\* tx_new_mail.send(mail).await?
NotifierForward ==
    /\ notifier.pc = "forward"
    /\ Len(newMailChan) < MailChanCap
    /\ newMailChan' = Append(newMailChan, notifier.mail.v)
    /\ notifier' = [pc |-> "recv", mail |-> None]
    /\ UNCHANGED <<use_starttls, smtp, conn, nextId, mailChan, mailChanOpen, hist>>
    /\ UNCHANGED <<brokerVars, sseLog, httpVars>>

(***************************************************************************)
(* Ingestion bridge, second half: serve_http, "Task: Mail notifier"        *)
(***************************************************************************)
SseEvt(t, id, mail) == [t |-> t, id |-> id, mail |-> mail]

\* rx_mails.next().await, then
\* sse_stream_new_mail.send(&SseEvt::NewMail(mail)).await
SsePublish ==
    /\ newMailChan # <<>>
    /\ newMailChan' = Tail(newMailChan)
    /\ sseLog' = Append(sseLog, SseEvt("NewMail", Head(newMailChan).id, Some(Head(newMailChan))))
    /\ UNCHANGED <<use_starttls, smtp, conn, nextId, mailChan, mailChanOpen, hist>>
    /\ UNCHANGED <<notifier, brokerVars, httpVars>>

\* the same, sse_stream_new_mail.send returning Err: the error is logged
SsePublishFails ==
    /\ newMailChan # <<>>
    /\ newMailChan' = Tail(newMailChan)
    /\ hist' = [hist EXCEPT !.logged = @ \cup {Head(newMailChan).id}]
    /\ UNCHANGED <<use_starttls, smtp, conn, nextId, mailChan, mailChanOpen>>
    /\ UNCHANGED <<notifier, brokerVars, sseLog, httpVars>>

(***************************************************************************)
(* Mail broker: src/src/mail/broker.rs, process                            *)
(***************************************************************************)
\* the orders in which a HashMap over the keys S may be iterated
Orders(S) ==
    {f \in [1..Cardinality(S) -> S] :
        \A i, j \in 1..Cardinality(S) : i # j => f[i] # f[j]}

Without(ms, ids) == [i \in DOMAIN ms \ ids |-> ms[i]]
Insert(ms, mail) == [i \in DOMAIN ms \cup {mail.id} |-> IF i = mail.id THEN mail ELSE ms[i]]

\* What one command does: the tank afterwards, the values sent on the reply
\* channel, the ids removed, and ok = FALSE when a send returned Err, which
\* the `?` turns into the end of the broker task.
BrokerResult(ms, reply, rm, ok) == [mails |-> ms, reply |-> reply, removed |-> rm, ok |-> ok]

\* variant: the mail is not inserted
broker_NewMail_lost(ms, mail) == BrokerResult(ms, <<>>, {}, TRUE)

\* arm MailEvt::NewMail
broker_NewMail(ms, mail) == BrokerResult(Insert(ms, mail), <<>>, {}, TRUE)

\* variant: the mail is taken out of the tank
broker_GetMail_takes(ms, id, rx) ==
    BrokerResult(Without(ms, {id}),
                 IF rx THEN <<IF id \in DOMAIN ms THEN Some(ms[id]) ELSE None>> ELSE <<>>,
                 {}, rx)

\* variant: the first mail of the tank is sent, whatever the id
broker_GetMail_any(ms, id, rx) ==
    BrokerResult(ms,
                 IF rx THEN <<IF ms # <<>> THEN Some(ms[CHOOSE i \in DOMAIN ms : TRUE]) ELSE None>>
                       ELSE <<>>,
                 {}, rx)

\* arm MailEvt::GetMail; rx: the receiver of the reply channel still exists
broker_GetMail(ms, id, rx) ==
    BrokerResult(ms, IF rx THEN <<IF id \in DOMAIN ms THEN Some(ms[id]) ELSE None>> ELSE <<>>,
                 {}, rx)

\* variant: the iteration stops one mail short
broker_GetAll_oneShort(ms, order, rx) ==
    BrokerResult(ms, IF rx THEN [i \in 1..(Len(order) - 1) |-> ms[order[i]]] ELSE <<>>,
                 {}, rx \/ order = <<>>)

\* arm MailEvt::GetAll
broker_GetAll(ms, order, rx) ==
    BrokerResult(ms, IF rx THEN [i \in 1..Len(order) |-> ms[order[i]]] ELSE <<>>,
                 {}, rx \/ order = <<>>)

\* variant: the mail is looked up, not removed
broker_Remove_keeps(ms, id, rx) ==
    BrokerResult(ms,
                 IF rx THEN <<IF id \in DOMAIN ms THEN Some(id) ELSE None>> ELSE <<>>,
                 {id} \cap DOMAIN ms, rx)

\* arm MailEvt::Remove
broker_Remove(ms, id, rx) ==
    BrokerResult(Without(ms, {id}),
                 IF rx THEN <<IF id \in DOMAIN ms THEN Some(id) ELSE None>> ELSE <<>>,
                 {id} \cap DOMAIN ms, rx)

\* variant: the ids are sent and the mails stay
broker_RemoveAll_reportsOnly(ms, order, rx) ==
    IF rx \/ order = <<>>
    THEN BrokerResult(ms, order, DOMAIN ms, TRUE)
    ELSE BrokerResult(ms, <<>>, {order[1]}, FALSE)

\* arm MailEvt::RemoveAll
broker_RemoveAll(ms, order, rx) ==
    IF rx \/ order = <<>>
    THEN BrokerResult(Without(ms, DOMAIN ms), order, DOMAIN ms, TRUE)
    ELSE BrokerResult(Without(ms, {order[1]}), <<>>, {order[1]}, FALSE)

\* the receiver of the reply channel of request req has not been dropped
RxAlive(req) == \E h \in Handlers : http[h].pc = "wait" /\ http[h].req = req

\* one iteration of the broker loop
Broker ==
    /\ brokerAlive
    /\ brokerChan # <<>>
    /\ LET evt == Head(brokerChan)
           rx == RxAlive(evt.req)
       IN \E order \in Orders(DOMAIN mails) :
            LET r == CASE evt.t = "NewMail" -> broker_NewMail(mails, evt.mail.v)
                       [] evt.t = "GetMail" -> broker_GetMail(mails, evt.id, rx)
                       [] evt.t = "GetAll" -> broker_GetAll(mails, order, rx)
                       [] evt.t = "Remove" -> broker_Remove(mails, evt.id, rx)
                       [] evt.t = "RemoveAll" -> broker_RemoveAll(mails, order, rx)
            IN /\ mails' = r.mails
               /\ brokerAlive' = r.ok
               /\ hist' = [hist EXCEPT !.removed = @ \cup r.removed]
               /\ http' = [h \in Handlers |->
                            IF evt.t # "NewMail" /\ http[h].pc = "wait" /\ http[h].req = evt.req
                            THEN [http[h] EXCEPT !.chan = @ \o r.reply, !.closed = TRUE]
                            ELSE http[h]]
    /\ brokerChan' = Tail(brokerChan)
    /\ UNCHANGED <<use_starttls, smtp, conn, nextId, mailChan, mailChanOpen>>
    /\ UNCHANGED <<bridgeVars, sseLog, nreq>>

(***************************************************************************)
(* HTTP handlers: src/src/http/routes                                      *)
(***************************************************************************)
NoResp == [code |-> 0, list |-> <<>>, mail |-> None, n |-> 0]
Resp(code, list, mail, n) == [code |-> code, list |-> list, mail |-> mail, n |-> n]

NoSnapshot == [acked |-> {}, live |-> {}, pub |-> {}, quiet |-> {}, gone |-> {}]

Idle ==
    [pc |-> "idle", kind |-> "", id |-> 0, req |-> 0, chan |-> <<>>,
     closed |-> FALSE, resp |-> NoResp, snap |-> NoSnapshot]

\* the :id path segment: ulid is whether Ulid::from_string accepts it
Params == {[ulid |-> TRUE, id |-> i] : i \in 1..MaxMails} \cup {[ulid |-> FALSE, id |-> 0]}

\* variant: the size counts characters, not bytes
ByteLen_chars(str) ==
    Len(str) + Cardinality({i \in 1..Len(str) : str[i] = "\r\n"})
             - Cardinality({i \in 1..Len(str) : str[i] \in ContBytes})

\* Mail::get_size: a line end is two bytes, every other element one
ByteLen(str) == Len(str) + Cardinality({i \in 1..Len(str) : str[i] = "\r\n"})
summary(mail) == [id |-> mail.id, from |-> mail.from, to |-> mail.to, size |-> ByteLen(mail.raw)]

Finished(h, resp) == [http[h] EXCEPT !.pc = "done", !.resp = resp, !.chan = <<>>]

\* variant: the id is handed to the broker without being parsed
HttpRequest_noParse(h, route, param) ==
    /\ http[h].pc = "idle"
    /\ \A g \in Handlers : http[g].pc = "idle" => HandlerRank(h) <= HandlerRank(g)
    /\ nreq < MaxReq
    /\ nreq' = nreq + 1
    /\ LET cmd == CASE route = "mails" -> MailEvt("GetAll", nreq + 1, 0, None)
                    [] route = "mail" -> MailEvt("GetMail", nreq + 1, param.id, None)
                    [] route = "remove" -> MailEvt("Remove", nreq + 1, param.id, None)
                    [] route = "removeAll" -> MailEvt("RemoveAll", nreq + 1, 0, None)
           me == [Idle EXCEPT !.kind = route, !.id = param.id, !.req = nreq + 1,
                              !.snap = Snapshot]
       IN IF FALSE
          THEN /\ http' = [http EXCEPT ![h] = [me EXCEPT !.pc = "done",
                                                        !.resp = Resp(404, <<>>, None, 0)]]
               /\ UNCHANGED <<brokerChan, hist>>
          ELSE IF ~brokerAlive
          THEN /\ http' = [http EXCEPT ![h] = [me EXCEPT !.pc = "done",
                                                        !.resp = Resp(500, <<>>, None, 0)]]
               /\ UNCHANGED <<brokerChan, hist>>
          ELSE /\ http' = [http EXCEPT ![h] = [me EXCEPT !.pc = "wait"]]
               /\ brokerChan' = Append(brokerChan, cmd)
               /\ hist' = CASE route = "remove" ->
                                [hist EXCEPT !.live = @ \ {param.id},
                                             !.rmAfterPub = @ \cup ({param.id} \cap PublishedNew)]
                            [] route = "removeAll" ->
                                [hist EXCEPT !.live = {},
                                             !.rmAfterPub = @ \cup PublishedNew]
                            [] OTHER -> hist
    /\ UNCHANGED <<use_starttls, smtp, conn, nextId, mailChan, mailChanOpen>>
    /\ UNCHANGED <<bridgeVars, brokerAlive, mails, sseLog>>

\* A request arrives on a connection without a running handler, and the
\* handler runs up to its first wait on the reply channel: the id is parsed,
\* the reply channel created and the command sent.
HttpRequest(h, route, param) ==
    /\ http[h].pc = "idle"
    /\ \A g \in Handlers : http[g].pc = "idle" => HandlerRank(h) <= HandlerRank(g)
    /\ nreq < MaxReq
    /\ nreq' = nreq + 1
    /\ LET cmd == CASE route = "mails" -> MailEvt("GetAll", nreq + 1, 0, None)
                    [] route = "mail" -> MailEvt("GetMail", nreq + 1, param.id, None)
                    [] route = "remove" -> MailEvt("Remove", nreq + 1, param.id, None)
                    [] route = "removeAll" -> MailEvt("RemoveAll", nreq + 1, 0, None)
           me == [Idle EXCEPT !.kind = route, !.id = param.id, !.req = nreq + 1,
                              !.snap = Snapshot]
       IN IF route \in {"mail", "remove"} /\ ~param.ulid
          THEN /\ http' = [http EXCEPT ![h] = [me EXCEPT !.pc = "done",
                                                        !.resp = Resp(404, <<>>, None, 0)]]
               /\ UNCHANGED <<brokerChan, hist>>
          ELSE IF ~brokerAlive
          THEN /\ http' = [http EXCEPT ![h] = [me EXCEPT !.pc = "done",
                                                        !.resp = Resp(500, <<>>, None, 0)]]
               /\ UNCHANGED <<brokerChan, hist>>
          ELSE /\ http' = [http EXCEPT ![h] = [me EXCEPT !.pc = "wait"]]
               /\ brokerChan' = Append(brokerChan, cmd)
               /\ hist' = CASE route = "remove" ->
                                [hist EXCEPT !.live = @ \ {param.id},
                                             !.rmAfterPub = @ \cup ({param.id} \cap PublishedNew)]
                            [] route = "removeAll" ->
                                [hist EXCEPT !.live = {},
                                             !.rmAfterPub = @ \cup PublishedNew]
                            [] OTHER -> hist
    /\ UNCHANGED <<use_starttls, smtp, conn, nextId, mailChan, mailChanOpen>>
    /\ UNCHANGED <<bridgeVars, brokerAlive, mails, sseLog>>

\* variant: the loop stops after the first mail
recv_mails_first(h) ==
    Finished(h, Resp(200, [i \in 1..(IF http[h].chan = <<>> THEN 0 ELSE 1) |->
                                summary(http[h].chan[i])], None, 0))

\* routes/get_mails.rs /mails: `while let Some(mail) = r.next().await`, run
\* once the broker has dropped its sender
recv_mails(h) ==
    Finished(h, Resp(200, [i \in 1..Len(http[h].chan) |-> summary(http[h].chan[i])], None, 0))

\* routes/utils.rs get_mail and the /mail/:id route
recv_mail(h) ==
    LET mail == Head(http[h].chan)
    IN Finished(h, IF mail.some THEN Resp(200, <<>>, mail, 0) ELSE Resp(404, <<>>, None, 0))

\* routes/remove.rs /remove/:id
recv_remove(h) ==
    LET mail == Head(http[h].chan)
    IN Finished(h, IF mail.some THEN Resp(200, <<>>, None, 1) ELSE Resp(404, <<>>, None, 0))

\* routes/remove.rs /remove/all: one turn of `while let Some(id) = r.next().await`
recv_removeAll(h) ==
    IF http[h].chan # <<>>
    THEN [http[h] EXCEPT !.chan = Tail(@), !.resp.n = @ + 1]
    ELSE Finished(h, Resp(200, <<>>, None, http[h].resp.n))

\* variant: /remove/:id publishes whatever the broker answered
del_events_always(h) ==
    CASE http[h].kind = "remove" -> <<SseEvt("DelMail", http[h].id, None)>>
      [] http[h].kind = "removeAll" /\ http[h].chan # <<>> ->
            <<SseEvt("DelMail", Head(http[h].chan), None)>>
      [] OTHER -> <<>>

\* the DelMail events a handler publishes in this turn
del_events(h) ==
    CASE http[h].kind = "remove" /\ Head(http[h].chan).some -> <<SseEvt("DelMail", http[h].id, None)>>
      [] http[h].kind = "removeAll" /\ http[h].chan # <<>> ->
            <<SseEvt("DelMail", Head(http[h].chan), None)>>
      [] OTHER -> <<>>

\* The handler takes the next value off its reply channel, or sees it closed.
HttpRecv(h) ==
    /\ http[h].pc = "wait"
    /\ CASE http[h].kind = "mails" -> http[h].closed
         [] http[h].kind = "removeAll" -> http[h].chan # <<>> \/ http[h].closed
         [] OTHER -> http[h].chan # <<>>
    /\ http' = [http EXCEPT ![h] =
                    CASE http[h].kind = "mails" -> recv_mails(h)
                      [] http[h].kind = "mail" -> recv_mail(h)
                      [] http[h].kind = "remove" -> recv_remove(h)
                      [] http[h].kind = "removeAll" -> recv_removeAll(h)]
    /\ sseLog' = sseLog \o del_events(h)
    /\ hist' = IF http[h].kind = "remove" /\ Head(http[h].chan).some
               THEN [hist EXCEPT !.gone = @ \cup {http[h].id}]
               ELSE hist
    /\ UNCHANGED <<use_starttls, smtp, conn, nextId, mailChan, mailChanOpen>>
    /\ UNCHANGED <<bridgeVars, brokerVars, nreq>>

\* the response has been written and the handler is gone
HttpReturn(h) ==
    /\ http[h].pc = "done"
    /\ http' = [http EXCEPT ![h] = Idle]
    /\ UNCHANGED <<use_starttls, smtp, conn, nextId, mailChan, mailChanOpen, hist>>
    /\ UNCHANGED <<bridgeVars, brokerVars, sseLog, nreq>>

\* The future that waits on a reply channel is dropped before the broker
\* has answered (a requester wrapped in a timeout, as in the broker's tests).
AbandonRequest(h) ==
    /\ http[h].pc = "wait"
    /\ ~http[h].closed
    /\ http' = [http EXCEPT ![h] = Idle]
    /\ UNCHANGED <<use_starttls, smtp, conn, nextId, mailChan, mailChanOpen, hist>>
    /\ UNCHANGED <<bridgeVars, brokerVars, sseLog, nreq>>

(***************************************************************************)
(* The receiving end of the new-mail channel when a session runs alone     *)
(* (the receiver the tests of src/src/smtp/mod.rs hand to accept_loop)     *)
(***************************************************************************)
\* receiver.recv().await
DrainMail ==
    /\ mailChan # <<>>
    /\ mailChan' = Tail(mailChan)
    /\ UNCHANGED <<use_starttls, smtp, conn, nextId, mailChanOpen, hist>>
    /\ UNCHANGED <<bridgeVars, brokerVars, sseLog, httpVars>>

\* the receiver is dropped
CloseMailChan ==
    /\ mailChanOpen
    /\ mailChanOpen' = FALSE
    /\ UNCHANGED <<use_starttls, smtp, conn, nextId, mailChan, hist>>
    /\ UNCHANGED <<bridgeVars, brokerVars, sseLog, httpVars>>

(***************************************************************************)
(* Specifications                                                          *)
(***************************************************************************)
InitRest ==
    /\ smtp = [c \in Conns |-> NewSmtp]
    /\ conn = [c \in Conns |-> NewConn]
    /\ nextId = 1
    /\ mailChan = <<>>
    /\ mailChanOpen = TRUE
    /\ notifier = [pc |-> "recv", mail |-> None]
    /\ brokerChan = <<>>
    /\ brokerAlive = TRUE
    /\ mails = <<>>
    /\ newMailChan = <<>>
    /\ sseLog = <<>>
    /\ http = [h \in Handlers |-> Idle]
    /\ nreq = 0
    /\ hist = NoHistory

\* main_fut: use_starttls is never set (structopt skip)
Init == use_starttls = FALSE /\ InitRest

Session(cs, lines) ==
    \E c \in cs :
        \/ Accept(c)
        \/ \E line \in lines :
                /\ smtp[c].receive_data => line \in DataLines
                /\ WithinBounds(c, line, SmtpMails, MaxDataLen)
                /\ ReadLine(c, line)
        \/ SendMail(c)
        \/ Disconnect(c)

\* A client that follows the protocol and stays connected: outside DATA mode
\* it sends a command the session accepts, in DATA mode a line of text and
\* then the final dot.
Polite(c, line) ==
    IF smtp[c].receive_data
    THEN line = (IF smtp[c].data = <<>> THEN L_TEXT ELSE L_DOT)
    ELSE LET action == process_line(smtp[c], use_starttls, line)
         IN action.t # "Error" /\ is_valid(smtp[c], use_starttls, action)

PoliteSession(cs, maxMails) ==
    \E c \in cs :
        \/ Accept(c)
        \/ \E line \in SysLines :
                /\ Polite(c, line)
                /\ WithinBounds(c, line, maxMails, MaxDataLen)
                /\ ReadLine(c, line)
        \/ SendMail(c)

Bridge == NotifierStore \/ NotifierForward \/ SsePublish

Http ==
    \E h \in Handlers :
        \/ \E route \in {"mails", "mail", "remove", "removeAll"}, param \in Params :
                HttpRequest(h, route, param)
        \/ HttpRecv(h)
        \/ HttpReturn(h)

\* the whole program: SMTP sessions, bridge, broker and HTTP handlers
Next == PoliteSession({"c1"}, MaxMails) \/ Bridge \/ Broker \/ Http

Spec == Init /\ [][Next]_vars

\* the scheduler runs every task that can take a step
Fairness ==
    /\ \A c \in Conns : WF_vars(SendMail(c))
    /\ WF_vars(NotifierStore) /\ WF_vars(NotifierForward) /\ WF_vars(SsePublish)
    /\ WF_vars(Broker)
    /\ \A h \in Handlers : WF_vars(HttpRecv(h)) /\ WF_vars(HttpReturn(h))

FairSpec == Spec /\ Fairness

\* sessions, bridge and broker, without HTTP requests
NextIngest == PoliteSession(Conns, IngestMails) \/ Bridge \/ Broker

SpecIngest == Init /\ [][NextIngest]_vars

FairIngest == SpecIngest /\ Fairness

\* the program with requesters that may give up before the broker answers
NextDrop == Next \/ \E h \in Handlers : AbandonRequest(h)

SpecDrop == Init /\ [][NextDrop]_vars

\* sessions alone, every input line, with the test's receiver on the channel
InitSmtp == use_starttls \in BOOLEAN /\ InitRest

NextSmtp == Session({"c1"}, Lines) \/ DrainMail \/ CloseMailChan

SpecSmtp == InitSmtp /\ [][NextSmtp]_vars

\* A client that sends one mail and leaves: the commands in order, then any
\* payload, then QUIT.
PayloadClient(c, line) ==
    IF smtp[c].receive_data
    THEN line \in PayloadLines \cup {L_DOT}
    ELSE IF conn[c].phase = "ended"
         THEN line = L_QUIT
         ELSE line \in SysLines /\ Polite(c, line)

NextData ==
    \/ Accept("c1")
    \/ \E line \in SysLines \cup PayloadLines \cup {L_QUIT} :
            /\ PayloadClient("c1", line)
            /\ WithinBounds("c1", line, SmtpMails, MaxPayload)
            /\ ReadLine("c1", line)
    \/ SendMail("c1")
    \/ DrainMail

SpecData == Init /\ [][NextData]_vars

\* A client that sends one mail to two recipients: HELO, MAIL FROM:<a>,
\* RCPT TO:<b>, RCPT TO:<c>, DATA, a line of text, the dot, then QUIT.
TxnClient(c, line) ==
    IF smtp[c].receive_data
    THEN Polite(c, line) /\ (line = L_DOT => nextId <= SmtpMails)
    ELSE line = CASE conn[c].phase = "start" -> L_HELO
                  [] conn[c].phase = "helo" -> L_MAIL
                  [] conn[c].phase = "mail" -> L_RCPT
                  [] conn[c].phase = "rcpt" ->
                        IF Len(smtp[c].addr_to) = 1 THEN L_RCPT_2 ELSE L_DATA
                  [] OTHER -> L_QUIT

\* that client with the bridge, the broker and GET /mails requests
NextTxn ==
    \/ Accept("c1")
    \/ \E line \in SysLines \cup {L_RCPT_2, L_QUIT} :
            TxnClient("c1", line) /\ ReadLine("c1", line)
    \/ SendMail("c1")
    \/ Bridge
    \/ Broker
    \/ \E h \in Handlers :
            \/ HttpRequest(h, "mails", [ulid |-> FALSE, id |-> 0])
            \/ HttpRecv(h)
            \/ HttpReturn(h)

SpecTxn == Init /\ [][NextTxn]_vars

\* the lines sent in DATA mode that read like commands, with an empty line
\* and a line whose first character takes two bytes
InDataLines == {L_QUIT, L_RSET, L_NOOP, L_HELO, L_MAIL, L_DATA, L_EMPTY,
                L_HEADER_UTF8}

\* A client that sends one mail and leaves: the commands in order, then
\* lines that read like commands as the payload, then QUIT.
InDataClient(c, line) ==
    IF smtp[c].receive_data
    THEN line \in InDataLines \cup {L_DOT}
    ELSE IF conn[c].phase = "ended"
         THEN line = L_QUIT
         ELSE line \in SysLines /\ Polite(c, line)

NextInData ==
    \/ Accept("c1")
    \/ \E line \in SysLines \cup InDataLines \cup {L_QUIT} :
            /\ InDataClient("c1", line)
            /\ WithinBounds("c1", line, SmtpMails, MaxPayload)
            /\ ReadLine("c1", line)
    \/ SendMail("c1")
    \/ DrainMail

SpecInData == Init /\ [][NextInData]_vars

\* the lines of two clients that use different addresses
PairLines == {L_HELO, L_MAIL, L_MAIL_MIXED, L_RCPT, L_DATA, L_TEXT, L_DOT, L_RSET}

\* two sessions at once, each sending commands the session accepts, with
\* the test's receiver on the channel
NextPair ==
    \/ \E c \in Conns :
            \/ Accept(c)
            \/ \E line \in PairLines :
                    /\ Polite(c, line)
                    /\ WithinBounds(c, line, SmtpMails, MaxDataLen)
                    /\ ReadLine(c, line)
            \/ SendMail(c)
    \/ DrainMail

SpecPair == Init /\ [][NextPair]_vars

\* Two clients that follow the protocol, told apart by their senders:
\* the first sends MAIL FROM:<a>, the second Mail From:<Ab>; each mail has
\* one recipient.
OrderClient(c, line) ==
    /\ Polite(c, line)
    /\ line = L_RCPT => smtp[c].addr_to = <<>>
    /\ line \in {L_MAIL, L_MAIL_MIXED} => line = (IF c = "c1" THEN L_MAIL ELSE L_MAIL_MIXED)

\* these sessions with the bridge and the broker
NextOrder ==
    \/ \E c \in Conns :
            \/ Accept(c)
            \/ \E line \in SysLines \cup {L_MAIL_MIXED} :
                    /\ OrderClient(c, line)
                    /\ WithinBounds(c, line, IngestMails, MaxDataLen)
                    /\ ReadLine(c, line)
            \/ SendMail(c)
    \/ Bridge
    \/ Broker

SpecOrder == Init /\ [][NextOrder]_vars

\* the lines of the mails whose headers and body are explored
MailLines == {L_HEADER, L_CONT_SPACE, L_CONT_TAB, L_HEADER_UTF8, L_EMPTY, L_TEXT}

\* A client that sends one mail and leaves: the commands in order, then
\* header lines, empty lines and text in any order, then QUIT.
MailClient(c, line) ==
    IF smtp[c].receive_data
    THEN line \in MailLines \cup {L_DOT}
    ELSE IF conn[c].phase = "ended"
         THEN line = L_QUIT
         ELSE line \in SysLines /\ Polite(c, line)

NextMail ==
    \/ Accept("c1")
    \/ \E line \in SysLines \cup MailLines \cup {L_QUIT} :
            /\ MailClient("c1", line)
            /\ WithinBounds("c1", line, SmtpMails, MaxMailLines)
            /\ ReadLine("c1", line)
    \/ SendMail("c1")
    \/ DrainMail

SpecMail == Init /\ [][NextMail]_vars

\* A client that sends one mail and leaves: the commands in any order with
\* addresses of any length, then one line of text, the dot and QUIT.
AddrClient(c, line) ==
    IF smtp[c].receive_data
    THEN Polite(c, line)
    ELSE IF conn[c].phase = "ended"
         THEN line = L_QUIT
         ELSE line \in AddrLines

NextAddr ==
    \/ Accept("c1")
    \/ \E line \in AddrLines \cup {L_TEXT, L_DOT, L_QUIT} :
            /\ AddrClient("c1", line)
            /\ WithinBounds("c1", line, SmtpMails, MaxDataLen)
            /\ ReadLine("c1", line)
    \/ SendMail("c1")
    \/ DrainMail

SpecAddr == InitSmtp /\ [][NextAddr]_vars

\* A session whose client tries every command line outside DATA mode, sends
\* a line of text and the final dot in DATA mode, and starts no second
\* transaction behind a DATA-end.
CmdClient(c, line) ==
    IF smtp[c].receive_data THEN Polite(c, line)
    ELSE IF conn[c].phase = "ended"
         THEN line \in {L_QUIT, L_QUIT_MIXED, L_NOOP_MIXED} \cup OtherLines
         ELSE line \in CmdLines

NextCmd ==
    \/ Accept("c1")
    \/ \E line \in CmdLines \cup {L_TEXT, L_DOT} :
            /\ CmdClient("c1", line)
            /\ WithinBounds("c1", line, SmtpMails, MaxDataLen)
            /\ ReadLine("c1", line)
    \/ SendMail("c1")
    \/ DrainMail

SpecCmd == InitSmtp /\ [][NextCmd]_vars

\* the verbs that take an argument, sent without one
BareLines == {L_HELO_BARE, L_HELO_SPACE, L_EHLO_BARE, L_MAIL_BARE, L_RCPT_BARE}

\* the commands of a client that sends the verbs with and without argument
BareCmdLines == {L_HELO, L_MAIL, L_RCPT, L_DATA, L_RSET, L_NOOP, L_QUIT} \cup BareLines

\* A session whose client sends these lines in any order outside DATA mode,
\* a line of text and the final dot in DATA mode.
BareClient(c, line) ==
    IF smtp[c].receive_data THEN Polite(c, line) ELSE line \in BareCmdLines

NextBare ==
    \/ Accept("c1")
    \/ \E line \in BareCmdLines \cup {L_TEXT, L_DOT} :
            /\ BareClient("c1", line)
            /\ WithinBounds("c1", line, SmtpMails, MaxDataLen)
            /\ ReadLine("c1", line)
    \/ SendMail("c1")
    \/ DrainMail

SpecBare == InitSmtp /\ [][NextBare]_vars

(***************************************************************************)
(* The SMTP session                                                        *)
(***************************************************************************)
TransactionVerbs == {"Hello", "Ehllo", "From", "Recipient", "DataStart"}

\* the input lines that are read as one of these commands
VerbLines == {line \in Lines : process_line(NewSmtp, FALSE, line).t \in TransactionVerbs}

\* C1: a HELO/EHLO, MAIL FROM, RCPT TO or DATA command that arrives when its
\* guard does not hold is answered "503 Bad sequence of commands", leaves
\* remote_name, addr_from, addr_to, data and receive_data as they were, and
\* the session goes on reading.
C1_BadSequenceLeavesState ==
    [][\A c \in Conns, line \in VerbLines :
        LET action == process_line(smtp[c], use_starttls, line)
        IN (/\ conn[c].pc = "read"
            /\ action.t \in TransactionVerbs
            /\ ~is_valid(smtp[c], use_starttls, action)
            /\ ReadLine(c, line))
           => /\ conn'[c].reply = MSG_503_BAD_SEQUENCE
              /\ smtp'[c] = smtp[c]
              /\ conn'[c].pc = "read"
              /\ ~conn'[c].mail.some]_vars

\* a command has been refused with 503 in the middle of a transaction, and
\* the transaction is still there
C1_Witness ==
    \E c \in Conns :
        /\ conn[c].reply = MSG_503_BAD_SEQUENCE
        /\ conn[c].pc = "read"
        /\ smtp[c].remote_name.some
        /\ smtp[c].addr_from.some

\* the order in which the transaction verbs are accepted
PhaseOrder(p, q) ==
    \/ q = p
    \/ q = "start" /\ p # "data"
    \/ q = "helo" /\ p \in {"start", "ended"}
    \/ q = "mail" /\ p \in {"helo", "ended"}
    \/ q = "rcpt" /\ p = "mail"
    \/ q = "data" /\ p = "rcpt"
    \/ q = "ended" /\ p = "data"

\* C2: a session emits a mail only at the end of HELO/EHLO, MAIL FROM, at
\* least one RCPT TO, DATA, in that order; DATA is accepted only with
\* remote_name and addr_from set and addr_to non-empty; the mail emitted
\* carries the sender and the recipients of the transaction, at least one.
C2_MailOnlyAfterFullTransaction ==
    [][\A c \in Conns :
        /\ PhaseOrder(conn[c].phase, conn'[c].phase)
        /\ (~smtp[c].receive_data /\ smtp'[c].receive_data)
            => /\ smtp[c].remote_name.some /\ smtp[c].addr_from.some
               /\ smtp[c].addr_to # <<>>
               /\ conn'[c].phase = "data"
        /\ (~conn[c].mail.some /\ conn'[c].mail.some)
            => /\ conn[c].phase = "data" /\ conn'[c].phase = "ended"
               /\ smtp[c].remote_name.some /\ smtp[c].addr_from.some
               /\ conn'[c].mail.v.from = smtp[c].addr_from.v
               /\ conn'[c].mail.v.to = smtp[c].addr_to
               /\ Len(conn'[c].mail.v.to) >= 1]_vars

\* a session holds a mail it is about to send to the broker side
C2_Witness ==
    \E c \in Conns :
        /\ conn[c].pc = "send"
        /\ conn[c].mail.some
        /\ Len(conn[c].mail.v.to) >= 1

\* C3: the DATA-end line clears addr_from, addr_to and data and leaves DATA
\* mode before the mail is sent on the channel, so whether or not that send
\* succeeds; remote_name is kept, and a MAIL FROM that comes next on the
\* connection is accepted without a new HELO.
C3_DataEndResets ==
    [][\A c \in Conns :
        /\ (smtp[c].receive_data /\ ReadLine(c, L_DOT))
            => /\ smtp'[c] = [NewSmtp EXCEPT !.remote_name = smtp[c].remote_name]
               /\ smtp'[c].remote_name.some
               /\ conn'[c].reply = MSG_250_OK
               /\ conn'[c].mail.some
        /\ SendMail(c)
            => /\ smtp'[c] = smtp[c]
               /\ conn'[c].pc = (IF mailChanOpen THEN "read" ELSE "failed")
               /\ is_valid(smtp'[c], use_starttls, Cmd("From", <<>>))
        /\ (conn[c].phase = "ended" /\ ReadLine(c, L_MAIL))
            => /\ conn'[c].reply = MSG_250_OK
               /\ smtp'[c].addr_from.some
               /\ smtp'[c].remote_name = smtp[c].remote_name]_vars

\* a mail has been sent on the channel and the session, its transaction
\* cleared and its HELO name kept, reads the next command
C3_Witness ==
    \E c \in Conns :
        /\ conn[c].phase = "ended"
        /\ conn[c].pc = "read"
        /\ smtp[c] = [NewSmtp EXCEPT !.remote_name = smtp[c].remote_name]
        /\ smtp[c].remote_name.some

(***************************************************************************)
(* From the session to the repository and its queries                      *)
(***************************************************************************)
\* the ids of the summaries in the response of GET /mails
RespIds(h) == {http[h].resp.list[i].id : i \in 1..Len(http[h].resp.list)}

\* the response of handler h gives the mail of that id as it was emitted
ReturnsMail(h, id) ==
    /\ http[h].resp.code = 200
    /\ http[h].resp.mail.some
    /\ http[h].resp.mail.v.id = id
    /\ http[h].resp.mail.v \in hist.sent

\* the response of GET /mails holds the summary of every mail of these ids
ListsMails(h, ids) ==
    /\ http[h].resp.code = 200
    /\ \A id \in ids : \E m \in hist.sent :
            /\ m.id = id
            /\ \E i \in 1..Len(http[h].resp.list) : http[h].resp.list[i] = summary(m)

\* C4 as stated: a GET /mails issued after the 250 OK of a mail (and with no
\* removal of it requested) lists the mail, and GET /mail/{id} returns it.
C4_AckedThenListed ==
    \A h \in Handlers :
        http[h].pc = "done" =>
            /\ http[h].kind = "mails" => ListsMails(h, http[h].snap.acked)
            /\ (http[h].kind = "mail" /\ http[h].id \in http[h].snap.acked)
                    => ReturnsMail(h, http[h].id)

\* C4, amended: a GET /mails issued after the bridge has enqueued the mail
\* on the broker channel, with no removal of it requested since, lists the
\* mail, and GET /mail/{id} issued then returns the mail as it was emitted.
C4_StoredThenListed ==
    \A h \in Handlers :
        http[h].pc = "done" =>
            /\ http[h].kind = "mails" => ListsMails(h, http[h].snap.live)
            /\ (http[h].kind = "mail" /\ http[h].id \in http[h].snap.live)
                    => ReturnsMail(h, http[h].id)

\* a GET /mails issued after the mail was enqueued for storage has listed it
C4_Witness ==
    \E h \in Handlers :
        /\ http[h].pc = "done"
        /\ http[h].kind = "mails"
        /\ http[h].snap.live # {}
        /\ http[h].snap.live \subseteq RespIds(h)

\* C5 as stated: the broker keeps serving its command channel whatever
\* happens to the receivers of the reply channels.
C5_BrokerKeepsServing == brokerAlive

\* the values the broker has sent on the reply channel of handler h
ReplyIds(h) == {http[h].chan[i].id : i \in 1..Len(http[h].chan)}

\* C6: commands take effect in the order of the command channel: a GetAll
\* enqueued after the NewMail command of a mail, with no Remove of it and no
\* RemoveAll enqueued in between, is answered with that mail, and a GetMail
\* of its id enqueued then is answered with Some(mail).
C6_FifoOrder ==
    \A h \in Handlers :
        (http[h].pc = "wait" /\ http[h].closed) =>
            /\ http[h].kind = "mails" =>
                    /\ http[h].snap.live \subseteq ReplyIds(h)
                    /\ \A i \in 1..Len(http[h].chan) : http[h].chan[i] \in hist.sent
            /\ (http[h].kind = "mail" /\ http[h].id \in http[h].snap.live) =>
                    /\ Len(http[h].chan) = 1
                    /\ http[h].chan[1].some
                    /\ http[h].chan[1].v.id = http[h].id

\* the broker has answered a GetAll that was enqueued behind a NewMail
C6_Witness ==
    \E h \in Handlers :
        /\ http[h].pc = "wait" /\ http[h].closed
        /\ http[h].kind = "mails"
        /\ http[h].snap.live # {}
        /\ ReplyIds(h) = http[h].snap.live

\* C7 as stated: GET /mail/{id} issued after NewMail of that id was
\* published, with no removal of it requested since the publication, finds
\* the mail.
C7_PublishedThenFound ==
    \A h \in Handlers :
        (http[h].pc = "done" /\ http[h].kind = "mail" /\ http[h].id \in http[h].snap.quiet)
            => ReturnsMail(h, http[h].id)

\* C7, amended: the NewMail command of a mail is enqueued on the broker
\* channel before its NewMail event is published, and GET /mail/{id} issued
\* after the publication finds the mail provided no removal of it has been
\* requested since that command was enqueued.
C7_StoredBeforePublished ==
    /\ PublishedNew \subseteq hist.stored
    /\ \A h \in Handlers :
        (/\ http[h].pc = "done" /\ http[h].kind = "mail"
         /\ http[h].id \in http[h].snap.pub \cap http[h].snap.live)
            => ReturnsMail(h, http[h].id)

\* a GET /mail/{id} issued after the NewMail event has answered with the mail
C7_Witness ==
    \E h \in Handlers :
        /\ http[h].pc = "done" /\ http[h].kind = "mail"
        /\ http[h].id \in http[h].snap.pub
        /\ ReturnsMail(h, http[h].id)

(***************************************************************************)
(* Events on the SSE bus                                                   *)
(***************************************************************************)
\* the number of events of type t and id published so far
EventCount(t, id) ==
    Cardinality({i \in 1..Len(sseLog) : sseLog[i].t = t /\ sseLog[i].id = id})

AfterRemoval ==
    /\ hist.gone \cap DOMAIN mails = {}
    /\ \A h \in Handlers :
        /\ (http[h].pc = "wait" /\ http[h].closed) =>
            /\ (http[h].kind = "mail" /\ http[h].id \in http[h].snap.gone)
                    => http[h].chan = <<None>>
            /\ http[h].kind = "mails" => ReplyIds(h) \cap http[h].snap.gone = {}
        /\ http[h].pc = "done" =>
            /\ (http[h].kind = "mail" /\ http[h].id \in http[h].snap.gone)
                    => http[h].resp.code = 404
            /\ http[h].kind = "mails" => RespIds(h) \cap http[h].snap.gone = {}
            /\ (http[h].kind = "remove" /\ http[h].id \in http[h].snap.gone)
                    => http[h].resp.code = 404 /\ http[h].resp.n = 0

\* C10: Remove(id) removes the mail if present and replies Some(id) once,
\* otherwise replies None and leaves the repository as it was; once
\* GET /remove/{id} has answered OK: 1, GetMail(id) is answered None, GetAll
\* no longer holds the mail and a second GET /remove/{id} answers 404.
C10_RemoveOnce ==
    [][/\ (Broker /\ Head(brokerChan).t = "Remove") =>
            LET id == Head(brokerChan).id
                req == Head(brokerChan).req
            IN /\ DOMAIN mails' = DOMAIN mails \ {id}
               /\ \A i \in DOMAIN mails' : mails'[i] = mails[i]
               /\ id \notin DOMAIN mails => mails' = mails
               /\ \A h \in Handlers :
                    (http[h].pc = "wait" /\ http[h].req = req) =>
                        /\ http'[h].closed
                        /\ http'[h].chan =
                            <<IF id \in DOMAIN mails THEN Some(id) ELSE None>>
       /\ AfterRemoval']_vars

\* a second GET /remove/{id}, issued after the first answered OK: 1, has
\* answered 404
C10_Witness ==
    \E h \in Handlers :
        /\ http[h].pc = "done" /\ http[h].kind = "remove"
        /\ http[h].id \in http[h].snap.gone
        /\ http[h].resp.code = 404

(***************************************************************************)
(* Two sessions whose tasks may end with an error, the bridge and the      *)
(* broker                                                                  *)
(***************************************************************************)
NextFail ==
    \/ PoliteSession(Conns, IngestMails)
    \/ \E c \in Conns : TransportError(c)
    \/ NotifierStore
    \/ NotifierForward
    \/ SsePublish
    \/ Broker

SpecFail == Init /\ [][NextFail]_vars

\* the bridge tasks and the broker task are scheduled
FairFail ==
    /\ SpecFail
    /\ WF_vars(NotifierStore) /\ WF_vars(NotifierForward) /\ WF_vars(SsePublish)
    /\ WF_vars(Broker)

(***************************************************************************)
(* The bridge with the failures its steps can meet: a broker that has      *)
(* ended, a publication that returns Err                                   *)
(***************************************************************************)
\* a mail of Mail::fake
FakeMail(id) == NewMail(id, <<"f">>, <<<<"t">>>>, <<"x">>)

\* routes/faking.rs: req.state().new_fake_mail.send(mail).await, a mail put
\* on the new-mail channel by a clone of the sender the sessions use
FakeArrival ==
    /\ nextId <= IngestMails
    /\ Len(mailChan) < MailChanCap
    /\ mailChan' = Append(mailChan, FakeMail(nextId))
    /\ nextId' = nextId + 1
    /\ UNCHANGED <<use_starttls, smtp, conn, mailChanOpen, hist>>
    /\ UNCHANGED <<bridgeVars, brokerVars, sseLog, httpVars>>

NextBridge ==
    \/ FakeArrival
    \/ Bridge
    \/ SsePublishFails
    \/ Broker
    \/ HttpRequest("h1", "mails", [ulid |-> FALSE, id |-> 0])
    \/ HttpRecv("h1")
    \/ HttpReturn("h1")
    \/ AbandonRequest("h1")

SpecBridge == Init /\ [][NextBridge]_vars

\* the bridge tasks are scheduled
FairBridge ==
    /\ SpecBridge
    /\ WF_vars(NotifierStore) /\ WF_vars(NotifierForward)
    /\ WF_vars(SsePublish \/ SsePublishFails)

(***************************************************************************)
(* The broker with its requesters, the SMTP side left out: the setting of  *)
(* the tests of src/src/mail/broker.rs                                     *)
(***************************************************************************)
\* sender.send(MailEvt::NewMail(mail)).await
InjectMail ==
    /\ nextId <= BrokerMails
    /\ brokerAlive
    /\ brokerChan' = Append(brokerChan, MailEvt("NewMail", 0, nextId, Some(FakeMail(nextId))))
    /\ nextId' = nextId + 1
    /\ hist' = [hist EXCEPT !.stored = @ \cup {nextId}, !.live = @ \cup {nextId}]
    /\ UNCHANGED <<use_starttls, smtp, conn, mailChan, mailChanOpen>>
    /\ UNCHANGED <<bridgeVars, brokerAlive, mails, sseLog, httpVars>>

\* the contents of the mails whose size is followed: one byte; a header, an
\* empty line and a body of one two-byte character
SizedRaws == {<<"x">>, <<"S", "\r\n", "\r\n", "C3", "A9">>}

\* sender.send(MailEvt::NewMail(Mail::new(from, to, data))).await
InjectRaw ==
    /\ nextId <= BrokerMails
    /\ brokerAlive
    /\ \E raw \in SizedRaws :
        LET mail == NewMail(nextId, <<"f">>, <<<<"t">>>>, raw)
        IN /\ brokerChan' = Append(brokerChan, MailEvt("NewMail", 0, nextId, Some(mail)))
           /\ hist' = [hist EXCEPT !.sent = @ \cup {mail}, !.stored = @ \cup {nextId},
                                    !.live = @ \cup {nextId}]
    /\ nextId' = nextId + 1
    /\ UNCHANGED <<use_starttls, smtp, conn, mailChan, mailChanOpen>>
    /\ UNCHANGED <<bridgeVars, brokerAlive, mails, sseLog, httpVars>>

\* the :id path segments tried against the broker
BrokerParams == {[ulid |-> TRUE, id |-> i] : i \in 1..BrokerMails}

NextBroker ==
    \/ InjectMail
    \/ Broker
    \/ \E h \in Handlers :
            \/ \E route \in {"mails", "mail", "remove", "removeAll"}, param \in BrokerParams :
                    HttpRequest(h, route, param)
            \/ HttpRecv(h)
            \/ HttpReturn(h)

SpecBroker == Init /\ [][NextBroker]_vars

\* the broker with mails of several sizes, listed and removed
NextSize ==
    \/ InjectRaw
    \/ Broker
    \/ \E h \in Handlers :
            \/ \E route \in {"mails", "remove", "removeAll"}, param \in BrokerParams :
                    HttpRequest(h, route, param)
            \/ HttpRecv(h)
            \/ HttpReturn(h)

SpecSize == Init /\ [][NextSize]_vars

\* the broker task and the handlers are scheduled
FairBroker ==
    /\ SpecBroker
    /\ WF_vars(Broker)
    /\ \A h \in Handlers : WF_vars(HttpRecv(h))

(***************************************************************************)
(* Length limits and the payload                                           *)
(***************************************************************************)
\* C11 as stated: in DATA mode a line longer than 1000 octets is answered
\* 500 and not appended to the accumulator, a line of at most 1000 octets is
\* accumulated without a reply, the session goes on and DATA-end answers
\* 250 OK.
C11_LongLineDropped ==
    [][\A c \in Conns :
        /\ \A line \in PayloadLines :
            (smtp[c].receive_data /\ ReadLine(c, line)) =>
                /\ conn'[c].pc = "read" /\ smtp'[c].receive_data
                /\ IF Len(line) > MaxLineLen
                   THEN /\ conn'[c].reply = MSG_500_LENGTH_TOO_LONG
                        /\ smtp'[c].data = smtp[c].data
                   ELSE /\ conn'[c].reply = NoReply
                        /\ Len(line) > 0 => smtp'[c].data # smtp[c].data
        /\ (smtp[c].receive_data /\ ReadLine(c, L_DOT)) =>
                conn'[c].reply = MSG_250_OK]_vars

\* the address carried by a MAIL FROM or RCPT TO line
AddrOf(c, line) == process_line(smtp[c], use_starttls, line).arg

\* C12: a MAIL FROM that passes the guard with an argument longer than 64
\* octets is answered 500 and leaves the session state as it was; with an
\* argument of at most 64 octets it sets addr_from and is answered 250 OK;
\* the session goes on reading in both cases.
C12_FromLengthLimit ==
    [][\A c \in Conns, line \in {L_MAIL, L_MAIL_FULL, L_MAIL_LONG} :
        (/\ conn[c].pc = "read" /\ ~smtp[c].receive_data
         /\ smtp[c].remote_name.some /\ smtp[c].addr_to = <<>>
         /\ ReadLine(c, line)) =>
            /\ conn'[c].pc = "read"
            /\ IF Len(AddrOf(c, line)) > MaxAddrLen
               THEN /\ conn'[c].reply = MSG_500_LENGTH_TOO_LONG
                    /\ smtp'[c] = smtp[c]
               ELSE /\ conn'[c].reply = MSG_250_OK
                    /\ smtp'[c] = [smtp[c] EXCEPT !.addr_from = Some(AddrOf(c, line))]]_vars

\* a MAIL FROM of 65 octets has been refused and the sender accepted before
\* is still there
C12_Witness ==
    \E c \in Conns :
        /\ conn[c].reply = MSG_500_LENGTH_TOO_LONG
        /\ conn[c].pc = "read"
        /\ ~smtp[c].receive_data
        /\ smtp[c].addr_from.some
        /\ Len(smtp[c].addr_from.v) <= MaxAddrLen

\* C13 as stated: a RCPT TO that passes the guard with an argument longer
\* than 64 octets is answered 500 and the address is not appended to
\* addr_to; the session goes on reading.
C13_RcptLengthLimit ==
    [][\A c \in Conns, line \in {L_RCPT, L_RCPT_FULL, L_RCPT_LONG} :
        (/\ conn[c].pc = "read" /\ ~smtp[c].receive_data
         /\ smtp[c].remote_name.some /\ smtp[c].addr_from.some
         /\ Len(AddrOf(c, line)) > MaxAddrLen
         /\ ReadLine(c, line)) =>
            /\ conn'[c].pc = "read"
            /\ conn'[c].reply = MSG_500_LENGTH_TOO_LONG
            /\ smtp'[c].addr_to = smtp[c].addr_to]_vars

\* a line as it is stored: one leading dot removed
Unstuffed(line) == IF line # <<>> /\ Head(line) = "." THEN Tail(line) ELSE line

RECURSIVE JoinCRLF(_)
\* the lines joined with CRLF
JoinCRLF(lines) ==
    IF lines = <<>> THEN <<>>
    ELSE IF Len(lines) = 1 THEN Unstuffed(lines[1])
    ELSE Unstuffed(lines[1]) \o <<"\r\n">> \o JoinCRLF(Tail(lines))

\* C14 as stated: the raw of the mail emitted for the payload lines L1..Ln,
\* each within the length limit, is the dot-unstuffed lines joined with CRLF,
\* every line kept, empty lines at the start, in the middle and at the end
\* included.
C14_RawIsPayload ==
    \A c \in Conns :
        (/\ conn[c].pc = "send"
         /\ \A i \in 1..Len(conn[c].lines) : Len(conn[c].lines[i]) <= MaxLineLen)
            => conn[c].mail.v.raw = JoinCRLF(conn[c].lines)

\* s ends with t
EndsWith(s, t) ==
    Len(t) <= Len(s) /\ SubSeq(s, Len(s) - Len(t) + 1, Len(s)) = t

Served(h, t) ==
    /\ http[h].pc = "wait"
    /\ brokerChan # <<>>
    /\ Head(brokerChan).t = t
    /\ Head(brokerChan).req = http[h].req

\* C16: for a GetMail(reply, id) whose requester waits, the broker sends
\* exactly one value on reply, Some(mail) with mail.id = id when the tank
\* holds id and None otherwise, leaves the tank as it was and drops the
\* sender: the handler finds the channel closed behind that single value.
C16_GetMailOneValue ==
    [][\A h \in Handlers :
        (Served(h, "GetMail") /\ Broker) =>
            LET id == Head(brokerChan).id
            IN /\ Len(http'[h].chan) = 1
               /\ http'[h].closed
               /\ IF id \in DOMAIN mails
                  THEN /\ http'[h].chan[1].some
                       /\ http'[h].chan[1].v.id = id
                       /\ http'[h].chan[1].v = mails[id]
                  ELSE http'[h].chan[1] = None
               /\ mails' = mails
               /\ brokerAlive']_vars

\* with two mails in the tank, a handler holds the single reply to its
\* GetMail, the mail it asked for, on a closed channel
C16_Witness ==
    \E h \in Handlers :
        /\ http[h].pc = "wait" /\ http[h].kind = "mail"
        /\ http[h].closed
        /\ Len(http[h].chan) = 1
        /\ http[h].chan[1].some
        /\ http[h].chan[1].v.id = http[h].id
        /\ Cardinality(DOMAIN mails) = BrokerMails

\* C17: for a GetAll whose requester waits, the broker sends every mail the
\* tank holds when the command is dequeued, each exactly once, changes
\* nothing in the tank and closes the reply; GET /mails ends, and answers
\* with the summaries of exactly the mails it received.
C17_GetAllSnapshot ==
    /\ [][\A h \in Handlers :
            /\ (Served(h, "GetAll") /\ Broker) =>
                    /\ Len(http'[h].chan) = Cardinality(DOMAIN mails)
                    /\ {http'[h].chan[i] : i \in 1..Len(http'[h].chan)}
                            = {mails[i] : i \in DOMAIN mails}
                    /\ http'[h].closed
                    /\ mails' = mails
                    /\ brokerAlive'
            /\ (http[h].pc = "wait" /\ http[h].kind = "mails" /\ HttpRecv(h)) =>
                    /\ http[h].closed
                    /\ http'[h].pc = "done"
                    /\ http'[h].resp.code = 200
                    /\ Len(http'[h].resp.list) = Len(http[h].chan)
                    /\ \A i \in 1..Len(http[h].chan) :
                            http'[h].resp.list[i].id = http[h].chan[i].id]_vars
    /\ \A h \in Handlers :
            (http[h].pc = "wait" /\ http[h].kind = "mails") ~> (http[h].pc = "done")

\* GET /mails has answered with the two mails of the tank
C17_Witness ==
    \E h \in Handlers :
        /\ http[h].pc = "done" /\ http[h].kind = "mails"
        /\ Len(http[h].resp.list) = BrokerMails
        /\ RespIds(h) = DOMAIN mails
        /\ Cardinality(DOMAIN mails) = BrokerMails

\* C18: for a RemoveAll whose requester waits, the broker removes every mail
\* the tank holds, sends the id of each exactly once and closes the reply;
\* the tank is empty afterwards, so a GetAll served next sends nothing; the
\* handler of GET /remove/all counts the ids one by one and answers with
\* their number.
C18_RemoveAllEmpties ==
    [][\A h \in Handlers :
        /\ (Served(h, "RemoveAll") /\ Broker) =>
                /\ Len(http'[h].chan) = Cardinality(DOMAIN mails)
                /\ {http'[h].chan[i] : i \in 1..Len(http'[h].chan)} = DOMAIN mails
                /\ http[h].resp.n = 0 /\ http'[h].resp.n = 0
                /\ http'[h].closed
                /\ mails' = <<>>
                /\ hist'.removed = hist.removed \cup DOMAIN mails
                /\ brokerAlive'
        /\ (Served(h, "GetAll") /\ Broker /\ mails = <<>>) => http'[h].chan = <<>>
        /\ (http[h].pc = "wait" /\ http[h].kind = "removeAll" /\ HttpRecv(h)) =>
                /\ http'[h].resp.n + Len(http'[h].chan) = http[h].resp.n + Len(http[h].chan)
                /\ http'[h].pc = "done" <=> http[h].chan = <<>>
                /\ http'[h].pc = "done" => http'[h].resp.code = 200]_vars

\* GET /remove/all has answered OK: 2 after both mails were stored, and the
\* tank is empty
C18_Witness ==
    \E h \in Handlers :
        /\ http[h].pc = "done" /\ http[h].kind = "removeAll"
        /\ http[h].resp.code = 200
        /\ http[h].resp.n = BrokerMails
        /\ mails = <<>>
        /\ hist.removed = 1..BrokerMails

(***************************************************************************)
(* The ingestion bridge when a step fails                                  *)
(***************************************************************************)
\* the mail id waits on the new-mail channel
Arrived(id) == \E i \in 1..Len(mailChan) : mailChan[i].id = id

\* C19: the bridge takes each mail that arrives on the new-mail channel,
\* sends it to the broker and only then has it published as NewMail; when
\* the send to the broker fails or the publication fails, the failure of
\* that mail is logged, and the bridge goes on: every mail that arrives,
\* the ones behind a failed mail included, is taken and ends published or
\* logged.
C19_BridgeSurvivesFailures ==
    /\ [][/\ (mailChan # <<>> /\ NotifierStore) =>
                LET mail == Head(mailChan)
                IN IF brokerAlive
                   THEN /\ brokerChan' = Append(brokerChan,
                                                MailEvt("NewMail", 0, mail.id, Some(mail)))
                        /\ notifier' = [pc |-> "forward", mail |-> Some(mail)]
                        /\ mail.id \notin PublishedNew
                        /\ hist'.logged = hist.logged
                   ELSE /\ brokerChan' = brokerChan
                        /\ notifier' = [pc |-> "recv", mail |-> None]
                        /\ hist'.logged = hist.logged \cup {mail.id}
          /\ SsePublishFails =>
                /\ sseLog' = sseLog
                /\ hist'.logged = hist.logged \cup {Head(newMailChan).id}
                /\ notifier' = notifier
          /\ \A id \in 1..IngestMails :
                (id \in PublishedNew' \ PublishedNew) =>
                    id \in hist.stored \ hist.logged]_vars
    /\ \A id \in 1..IngestMails :
            Arrived(id) ~> (id \in PublishedNew \/ id \in hist.logged)

\* the first mail was refused by the channel to the broker and logged, and
\* the bridge has taken the second one off the new-mail channel as well
C19_Witness ==
    /\ ~brokerAlive
    /\ hist.logged = 1..IngestMails
    /\ mailChan = <<>>
    /\ notifier.pc = "recv"

C22_UnknownRefused ==
    [][\A c \in Conns, line \in OtherLines :
        (~smtp[c].receive_data /\ ReadLine(c, line)) =>
            /\ conn'[c].reply = MSG_502_NOT_IMPLEMENTED
            /\ smtp'[c] = smtp[c]
            /\ conn'[c].pc = "read"]_vars

\* C23: outside DATA mode QUIT, in any case, is accepted in every session
\* state and answered 221; the session is over: the Smtp is left as it was,
\* no mail is emitted for the transaction that was under way, and nothing of
\* that connection changes afterwards, so no later line is processed.
C23_QuitEndsSession ==
    [][\A c \in Conns :
        /\ (~smtp[c].receive_data /\ (ReadLine(c, L_QUIT) \/ ReadLine(c, L_QUIT_MIXED))) =>
                /\ conn'[c].reply = MSG_221_CLOSING
                /\ conn'[c].pc = "closed"
                /\ conn'[c].mail = None
                /\ smtp'[c] = smtp[c]
                /\ hist'.sent = hist.sent
                /\ mailChan' = mailChan
        /\ conn[c].pc = "closed" =>
                /\ conn'[c] = conn[c]
                /\ smtp'[c] = smtp[c]
                /\ hist'.sent = hist.sent
                /\ nextId' = nextId]_vars

\* a session was closed by QUIT with a sender and a recipient accepted and
\* no mail emitted
C23_Witness ==
    \E c \in Conns :
        /\ conn[c].pc = "closed"
        /\ conn[c].reply = MSG_221_CLOSING
        /\ smtp[c].addr_from.some
        /\ smtp[c].addr_to # <<>>
        /\ hist.sent = {}
        /\ mailChan = <<>>

\* the command a line in mixed case stands for
VerbOf(line) ==
    CASE line = L_HELO_MIXED -> "Hello"
      [] line = L_EHLO_MIXED -> "Ehllo"
      [] line = L_MAIL_MIXED -> "From"
      [] line = L_RCPT_MIXED -> "Recipient"
      [] line = L_DATA_MIXED -> "DataStart"
      [] line = L_RSET -> "Reset"
      [] line = L_NOOP_MIXED -> "Noop"
      [] line = L_QUIT_MIXED -> "Quit"

\* C30: outside DATA mode a verb written in a mix of upper and lower case is
\* the command of that verb, never an unknown command, and the argument it
\* stores in remote_name, addr_from or addr_to has the case the client sent.
C30_VerbsAnyCase ==
    [][\A c \in Conns, line \in MixedLines :
        (~smtp[c].receive_data /\ ReadLine(c, line)) =>
            /\ process_line(smtp[c], use_starttls, line).t = VerbOf(line)
            /\ conn'[c].reply # MSG_502_NOT_IMPLEMENTED
            /\ conn'[c].reply = MSG_503_BAD_SEQUENCE => smtp'[c] = smtp[c]
            /\ conn'[c].reply # MSG_503_BAD_SEQUENCE =>
                CASE line \in {L_HELO_MIXED, L_EHLO_MIXED} ->
                        smtp'[c].remote_name = Some(<<"A","b">>)
                  [] line = L_MAIL_MIXED ->
                        smtp'[c].addr_from = Some(<<"<","A","b",">">>)
                  [] line = L_RCPT_MIXED ->
                        smtp'[c].addr_to = Append(smtp[c].addr_to, <<"<","C","d",">">>)
                  [] line = L_DATA_MIXED -> smtp'[c].receive_data
                  [] line = L_RSET -> smtp'[c] = NewSmtp
                  [] line = L_NOOP_MIXED ->
                        conn'[c].reply = MSG_250_OK /\ smtp'[c] = smtp[c]
                  [] line = L_QUIT_MIXED -> conn'[c].reply = MSG_221_CLOSING]_vars

\* a transaction written in mixed case has reached DATA mode with the
\* arguments stored as they were sent
C30_Witness ==
    \E c \in Conns :
        /\ smtp[c].receive_data
        /\ smtp[c].remote_name = Some(<<"A","b">>)
        /\ smtp[c].addr_from = Some(<<"<","A","b",">">>)
        /\ smtp[c].addr_to = <<<<"<","C","d",">">>>>

\* C24: when the receiver of the new-mail channel is gone at the moment a
\* session sends the mail of a DATA-end, the send fails and the session task
\* returns with that error: the mail is not queued and nothing of that
\* connection changes afterwards, so no further line is processed.
C24_ClosedChannelIsFatal ==
    [][\A c \in Conns :
        /\ (conn[c].pc = "send" /\ ~mailChanOpen /\ SendMail(c)) =>
                /\ conn'[c].pc = "failed"
                /\ mailChan' = mailChan
                /\ smtp'[c] = smtp[c]
        /\ conn[c].pc = "failed" =>
                /\ conn'[c] = conn[c]
                /\ smtp'[c] = smtp[c]
                /\ nextId' = nextId]_vars

\* a session has ended on the failed send of a mail it had acknowledged
C24_Witness ==
    \E c \in Conns :
        /\ conn[c].pc = "failed"
        /\ ~mailChanOpen
        /\ conn[c].reply = MSG_250_OK
        /\ conn[c].phase = "ended"
        /\ hist.sent # {}
        /\ mailChan = <<>>

(***************************************************************************)
(* Requests with an id that is no Ulid                                     *)
(***************************************************************************)
\* C25: a request to /mail/:id (or one of its sub-routes) or /remove/:id
\* whose id Ulid::from_string rejects is answered 404 by the handler alone:
\* no command is put on the broker channel, and the tank and the SSE bus
\* stay as they are.
C25_BadIdNotFound ==
    [][\A h \in Handlers, route \in {"mail", "remove"} :
        HttpRequest(h, route, [ulid |-> FALSE, id |-> 0]) =>
            /\ http'[h].pc = "done"
            /\ http'[h].resp.code = 404
            /\ brokerChan' = brokerChan
            /\ mails' = mails
            /\ sseLog' = sseLog
            /\ hist' = hist]_vars

\* GET /remove/{id} with an id that is no Ulid has answered 404 while a mail
\* is in the tank
C25_Witness ==
    \E h \in Handlers :
        /\ http[h].pc = "done" /\ http[h].kind = "remove"
        /\ http[h].id = 0
        /\ http[h].resp.code = 404
        /\ mails # <<>>
        /\ brokerChan = <<>>

(***************************************************************************)
(* A session task that ends with an error                                  *)
(***************************************************************************)
\* C26: when the task of one session ends with an error, that step changes
\* nothing for any other session, for the bridge or for the broker, and
\* they keep running: every mail that has reached the new-mail channel is
\* stored by the broker, whichever sessions have failed.
C26_SessionFailureIsLocal ==
    /\ [][\A c \in Conns :
            (conn[c].pc # "failed" /\ conn'[c].pc = "failed") =>
                /\ \A d \in Conns \ {c} : conn'[d] = conn[d] /\ smtp'[d] = smtp[d]
                /\ notifier' = notifier
                /\ mailChan' = mailChan /\ mailChanOpen' = mailChanOpen
                /\ newMailChan' = newMailChan
                /\ brokerChan' = brokerChan /\ brokerAlive' = brokerAlive
                /\ mails' = mails]_vars
    /\ \A id \in 1..IngestMails : Arrived(id) ~> (id \in DOMAIN mails)

\* one session has ended with an error in the middle of its transaction,
\* the other one reads on, and its mail is in the tank
C26_Witness ==
    \E c, d \in Conns :
        /\ conn[c].pc = "failed" /\ conn[c].phase = "mail"
        /\ conn[d].pc = "read" /\ conn[d].phase = "ended"
        /\ brokerAlive
        /\ mails # <<>>

(***************************************************************************)
(* Who changes the tank                                                    *)
(***************************************************************************)
\* C27: the tank changes only in a turn of the broker loop whose command is
\* NewMail, Remove or RemoveAll; a turn for GetMail or GetAll leaves it as
\* it is; each turn takes exactly the command at the head of the channel,
\* and every other step of the program only appends to the channel.
C27_OnlyBrokerWrites ==
    [][/\ mails' # mails =>
            /\ Broker
            /\ Head(brokerChan).t \in {"NewMail", "Remove", "RemoveAll"}
       /\ (brokerChan # <<>> /\ Broker) =>
            /\ brokerChan' = Tail(brokerChan)
            /\ Head(brokerChan).t \in {"GetMail", "GetAll"} => mails' = mails
            /\ Head(brokerChan).t = "NewMail" =>
                    /\ DOMAIN mails' = DOMAIN mails \cup {Head(brokerChan).id}
                    /\ mails'[Head(brokerChan).id] = Head(brokerChan).mail.v
            /\ Head(brokerChan).t = "Remove" =>
                    DOMAIN mails' = DOMAIN mails \ {Head(brokerChan).id}
            /\ Head(brokerChan).t = "RemoveAll" => DOMAIN mails' \subseteq DOMAIN mails
            /\ \A i \in DOMAIN mails' \cap DOMAIN mails : mails'[i] = mails[i]
       /\ brokerChan' # brokerChan =>
            \/ Broker
            \/ /\ Len(brokerChan') = Len(brokerChan) + 1
               /\ SubSeq(brokerChan', 1, Len(brokerChan)) = brokerChan]_vars

\* GetMail and GetAll have been served with a mail in the tank, and the
\* mail is still there
C27_Witness ==
    /\ mails # <<>>
    /\ hist.removed = {}
    /\ \E h, g \in Handlers :
        /\ http[h].kind = "mails" /\ http[h].pc = "wait" /\ http[h].closed
        /\ Len(http[h].chan) = Cardinality(DOMAIN mails)
        /\ http[g].kind = "mail" /\ http[g].pc = "wait" /\ http[g].closed
        /\ http[g].chan # <<>> /\ http[g].chan[1].some

(***************************************************************************)
(* C28, C29: the parts of a mail                                           *)
(***************************************************************************)
\* the index of the first empty line, or one past the last line
FirstEmpty(lines) ==
    IF \A i \in 1..Len(lines) : lines[i] # <<>>
    THEN Len(lines) + 1
    ELSE CHOOSE i \in 1..Len(lines) :
            lines[i] = <<>> /\ \A j \in 1..(i - 1) : lines[j] # <<>>

\* the lines of a payload before its first empty line
HeaderLines(raw) == SubSeq(SplitCRLF(raw), 1, FirstEmpty(SplitCRLF(raw)) - 1)

\* the lines of a payload after its first empty line
BodyLines(raw) ==
    SubSeq(SplitCRLF(raw), FirstEmpty(SplitCRLF(raw)) + 1, Len(SplitCRLF(raw)))

RECURSIVE Unfolded(_, _)
\* header entries as C28 states them: a line led by a space or a tab goes
\* to the entry before it, every other line opens an entry
Unfolded(lines, acc) ==
    IF lines = <<>> THEN acc
    ELSE IF Head(lines)[1] \in {" ", "\t"} /\ acc # <<>>
    THEN Unfolded(Tail(lines),
                  [acc EXCEPT ![Len(acc)] = @ \o <<"\r\n">> \o Head(lines)])
    ELSE Unfolded(Tail(lines), Append(acc, Head(lines)))

RECURSIVE Joined(_)
\* lines joined with CRLF between them
Joined(lines) ==
    IF lines = <<>> THEN <<>>
    ELSE IF Len(lines) = 1 THEN lines[1]
    ELSE lines[1] \o <<"\r\n">> \o Joined(Tail(lines))

RECURSIVE EntryLines(_)
\* the lines that the header entries are made of, in order
EntryLines(headers) ==
    IF headers = <<>> THEN <<>>
    ELSE SplitCRLF(Head(headers)) \o EntryLines(Tail(headers))

\* C28: in every mail a session emits, a header line that begins with a
\* space or a tab is appended to the entry before it after a CRLF, and
\* every other header line opens a new entry, in order.
C28_ContinuationsFolded ==
    \A c \in Conns :
        conn[c].mail.some =>
            conn[c].mail.v.headers = Unfolded(HeaderLines(conn[c].mail.v.raw), <<>>)

\* C29: in every mail a session emits, the header entries are made of the
\* lines before the first empty line of the payload and of nothing else,
\* and the body is every line after that empty line joined with CRLF,
\* empty lines in the middle and at the end included; without an empty
\* line the body is empty.
C29_SplitAtFirstEmptyLine ==
    \A c \in Conns :
        conn[c].mail.some =>
            LET mail == conn[c].mail.v
            IN /\ EntryLines(mail.headers) = HeaderLines(mail.raw)
               /\ mail.text = Joined(BodyLines(mail.raw))

(***************************************************************************)
(* C32: the summary of a whole transaction                                 *)
(***************************************************************************)
\* C32: after HELO, MAIL FROM:<a>, RCPT TO:<b>, RCPT TO:<c>, DATA, payload
\* and the dot, every GET /mails that lists the mail gives one entry whose
\* from is `a` and whose to is the list `b`, `c`, in the order of the
\* RCPT TO commands.
C32_TransactionListed ==
    \A h \in Handlers :
        (http[h].pc = "done" /\ http[h].kind = "mails" /\ http[h].resp.list # <<>>) =>
            /\ Len(http[h].resp.list) = 1
            /\ http[h].resp.list[1].from = <<"a">>
            /\ http[h].resp.list[1].to = << <<"b">>, <<"c">> >>

(***************************************************************************)
(* C33: the size of a summary                                              *)
(***************************************************************************)
RECURSIVE Octets(_)
\* the number of bytes of a string: CR and LF are one each
Octets(str) ==
    IF str = <<>> THEN 0
    ELSE (IF Head(str) = "\r\n" THEN 2 ELSE 1) + Octets(Tail(str))

\* C33: the summary of every mail in the repository reports as size the
\* number of bytes of its raw content, and every entry of a GET /mails
\* answer reports the number of bytes of the raw content the mail was
\* created with, whatever mails were added and removed before.
C33_SizeIsByteLength ==
    /\ \A id \in DOMAIN mails : summary(mails[id]).size = Octets(mails[id].raw)
    /\ \A h \in Handlers :
            (http[h].pc = "done" /\ http[h].kind = "mails") =>
                \A i \in 1..Len(http[h].resp.list) :
                    \E m \in hist.sent :
                        /\ m.id = http[h].resp.list[i].id
                        /\ http[h].resp.list[i].size = Octets(m.raw)

\* after a removal, a GET /mails has listed a mail of seven bytes whose
\* content has five elements and six characters
C33_Witness ==
    \E h \in Handlers :
        /\ http[h].pc = "done" /\ http[h].kind = "mails"
        /\ hist.removed # {}
        /\ \E i \in 1..Len(http[h].resp.list) :
                /\ http[h].resp.list[i].size = 7
                /\ http[h].resp.list[i].id \in DOMAIN mails
                /\ mails[http[h].resp.list[i].id].raw = <<"S", "\r\n", "\r\n", "C3", "A9">>

(***************************************************************************)
(* C34: what DATA mode implies                                             *)
(***************************************************************************)
\* C34: in every state of a session, DATA mode implies that the client has
\* named itself, that a sender is set and that there is at least one
\* recipient; and the lone dot read in DATA mode never ends the session
\* with the error of the missing sender.
C34_DataModeHasEnvelope ==
    /\ [](\A c \in Conns :
            smtp[c].receive_data =>
                /\ smtp[c].remote_name.some
                /\ smtp[c].addr_from.some
                /\ smtp[c].addr_to # <<>>)
    /\ [][\A c \in Conns :
            (smtp[c].receive_data /\ ReadLine(c, L_DOT)) =>
                /\ smtp[c].addr_from.some
                /\ conn'[c].pc # "failed"]_vars

\* a session in DATA mode has accumulated a line, and the envelope is there
C34_Witness ==
    \E c \in Conns :
        /\ smtp[c].receive_data
        /\ smtp[c].data # <<>>
        /\ smtp[c].remote_name.some /\ smtp[c].addr_from.some /\ Len(smtp[c].addr_to) = 1

(***************************************************************************)
(* C35: DATA mode reads no commands                                        *)
(***************************************************************************)
\* C35: in DATA mode every line other than the lone dot, lines that spell
\* QUIT, RSET, NOOP, HELO, MAIL FROM or DATA included, is put at the end of
\* the accumulator and not executed: remote_name, addr_from and addr_to
\* stay as they were, the session stays in DATA mode and goes on reading.
C35_DataModeReadsNoCommand ==
    [][\A c \in Conns, line \in InDataLines :
        (smtp[c].receive_data /\ ReadLine(c, line)) =>
            /\ EndsWith(smtp'[c].data, line)
            /\ SubSeq(smtp'[c].data, 1, Len(smtp[c].data)) = smtp[c].data
            /\ smtp'[c].remote_name = smtp[c].remote_name
            /\ smtp'[c].addr_from = smtp[c].addr_from
            /\ smtp'[c].addr_to = smtp[c].addr_to
            /\ smtp'[c].receive_data
            /\ conn'[c].pc = "read"]_vars

(***************************************************************************)
(* C36: RSET                                                               *)
(***************************************************************************)
\* C36: outside DATA mode RSET is answered 250 OK and leaves the session as
\* new, remote_name included; from then on MAIL FROM, RCPT TO and DATA are
\* answered 503 and change nothing, until a HELO or EHLO is accepted, which
\* is the only way for remote_name to be set again.
C36_ResetForgetsHelo ==
    [][\A c \in Conns :
        /\ (~smtp[c].receive_data /\ ReadLine(c, L_RSET)) =>
                /\ conn'[c].reply = MSG_250_OK
                /\ smtp'[c] = NewSmtp
                /\ conn'[c].phase = "start"
                /\ conn'[c].pc = "read"
        /\ \A line \in {L_MAIL, L_RCPT, L_DATA} :
                (conn[c].phase = "start" /\ ReadLine(c, line)) =>
                    /\ conn'[c].reply = MSG_503_BAD_SEQUENCE
                    /\ smtp'[c] = smtp[c]
                    /\ conn'[c].phase = "start"
        /\ (conn[c].phase = "start" /\ conn'[c].phase # "start") =>
                /\ conn'[c].phase = "helo"
                /\ conn'[c].reply \in {MSG_250_HELLO, MSG_250_HELLO_STARTTLS}]_vars

\* a mail was completed, RSET was accepted after it, and the verb sent next
\* has been refused with 503 although the client had said HELO before
C36_Witness ==
    \E c \in Conns :
        /\ \E m \in hist.sent : m.from = <<"<", "a", ">">>
        /\ conn[c].phase = "start"
        /\ ~smtp[c].remote_name.some
        /\ conn[c].reply = MSG_503_BAD_SEQUENCE
        /\ conn[c].pc = "read"

(***************************************************************************)
(* C37: NewMail before DelMail                                             *)
(***************************************************************************)
\* C37: for every mail, the DelMail event of its id is published on the SSE
\* bus behind the NewMail event of that mail, whatever the interleaving of
\* the bridge with GET /mails, GET /remove/{id} and GET /remove/all.
C37_NewMailBeforeDelMail ==
    \A i \in 1..Len(sseLog) :
        sseLog[i].t = "DelMail" =>
            \E j \in 1..(i - 1) :
                sseLog[j].t = "NewMail" /\ sseLog[j].id = sseLog[i].id

(***************************************************************************)
(* C38: sessions do not share state                                        *)
(***************************************************************************)
\* the sender and the recipients of a session
Envelope(s) == <<s.addr_from, s.addr_to>>

\* C38: with several sessions at once, a step of one session (its accept,
\* a line it reads, the send of its mail) leaves the state of every other
\* session as it was; an accepted MAIL FROM sets the sender of its own
\* session to its argument, an accepted RCPT TO adds its argument behind
\* the recipients of its own session, every other command that is not RSET
\* or the final dot leaves both alone; and the mail a session emits carries
\* the sender and the recipients its own session holds at that moment.
C38_SessionsAreIsolated ==
    [][\A c \in Conns :
        /\ (Accept(c) \/ SendMail(c) \/ \E line \in PairLines : ReadLine(c, line)) =>
                \A d \in Conns \ {c} : smtp'[d] = smtp[d] /\ conn'[d] = conn[d]
        /\ \A line \in PairLines :
              LET action == process_line(smtp[c], use_starttls, line)
              IN (ReadLine(c, line) /\ conn'[c].reply # MSG_503_BAD_SEQUENCE) =>
                    CASE action.t = "From" ->
                            Envelope(smtp'[c]) = <<Some(AddrOf(c, line)), smtp[c].addr_to>>
                      [] action.t = "Recipient" ->
                            Envelope(smtp'[c]) =
                                <<smtp[c].addr_from, Append(smtp[c].addr_to, AddrOf(c, line))>>
                      [] action.t = "Reset" -> Envelope(smtp'[c]) = <<None, <<>>>>
                      [] action.t = "DataEnd" ->
                            /\ conn'[c].mail.some
                            /\ conn'[c].mail.v.from = smtp[c].addr_from.v
                            /\ conn'[c].mail.v.to = smtp[c].addr_to
                            /\ Envelope(smtp'[c]) = <<None, <<>>>>
                      [] OTHER -> Envelope(smtp'[c]) = Envelope(smtp[c])]_vars

\* one session is about to send its mail from <a> while the other one,
\* in the middle of its transaction, holds the sender <Ab>
C38_Witness ==
    \E c, d \in Conns :
        /\ c # d
        /\ conn[c].pc = "send"
        /\ conn[c].mail.v.from = <<"<", "a", ">">>
        /\ smtp[d].addr_from = Some(<<"<", "A", "b", ">">>)
        /\ smtp[d].addr_to # <<>>

(***************************************************************************)
(* C39: the new-mail channel holds sessions back                           *)
(***************************************************************************)
\* the mails that a session emitted before mail m on the same connection
\* (the clients are told apart by their senders)
EarlierOf(m) == {m0 \in hist.sent : m0.from = m.from /\ m0.id < m.id}

\* the mails waiting on the new-mail channel
Waiting == {mailChan[i] : i \in 1..Len(mailChan)}

\* C39: a session that has emitted a mail reads no further line before the
\* new-mail channel has taken the mail, and the channel takes it only while
\* it holds fewer mails than its capacity; no mail is lost on the way (it
\* is held by its session, waits on the channel or has been handed to the
\* broker); and when a mail is handed to the broker, and when the broker
\* stores it, every mail its session emitted earlier has been handed over,
\* and stored, before.
C39_ChannelHoldsSessionsBack ==
    /\ [](\A m \in hist.sent :
            \/ \E c \in Conns : conn[c].pc = "send" /\ conn[c].mail = Some(m)
            \/ m \in Waiting
            \/ m.id \in hist.stored)
    /\ [][/\ \A c \in Conns :
                /\ (conn[c].mail.some /\ (conn'[c] # conn[c] \/ smtp'[c] # smtp[c])) =>
                        /\ Len(mailChan) < MailChanCap
                        /\ mailChan' = Append(mailChan, conn[c].mail.v)
                        /\ smtp'[c] = smtp[c]
                /\ \A line \in SysLines \cup {L_MAIL_MIXED} :
                        ReadLine(c, line) => ~conn[c].mail.some
           /\ NotifierStore =>
                \A m0 \in EarlierOf(Head(mailChan)) : m0.id \in hist.stored
           /\ (Broker /\ Head(brokerChan).t = "NewMail") =>
                \A m1 \in EarlierOf(Head(brokerChan).mail.v) : m1.id \in DOMAIN mails]_vars

\* a session is held back: its second mail is emitted and waits for the
\* channel, which is still full with the first mail of the same session
C39_Witness ==
    \E c \in Conns :
        /\ conn[c].pc = "send"
        /\ Len(mailChan) = MailChanCap
        /\ Head(mailChan) \in EarlierOf(conn[c].mail.v)

(***************************************************************************)
(* C40: verbs without argument                                             *)
(***************************************************************************)
\* C40: outside DATA mode HELO, EHLO, MAIL FROM: and RCPT TO: with nothing
\* behind the verb or its colon are answered 502 in every session state,
\* where the verb with an argument would be answered 250 as well as where
\* it would be answered 503; the Smtp is left as it was and the session
\* goes on reading.
C40_BareVerbsRefused ==
    [][\A c \in Conns, line \in BareLines :
        (~smtp[c].receive_data /\ ReadLine(c, line)) =>
            /\ process_line(smtp[c], use_starttls, line) = Cmd("Error", line)
            /\ conn'[c].reply = MSG_502_NOT_IMPLEMENTED
            /\ smtp'[c] = smtp[c]
            /\ conn'[c].pc = "read"]_vars

\* a verb without argument has been refused with 502 in a state where MAIL
\* FROM with an argument is accepted and RCPT TO with one is refused
C40_Witness ==
    \E c \in Conns :
        /\ conn[c].reply = MSG_502_NOT_IMPLEMENTED
        /\ conn[c].pc = "read"
        /\ smtp[c].remote_name.some
        /\ ~smtp[c].addr_from.some
        /\ is_valid(smtp[c], use_starttls, process_line(smtp[c], use_starttls, L_MAIL))
        /\ ~is_valid(smtp[c], use_starttls, process_line(smtp[c], use_starttls, L_RCPT))

====
